---- MODULE Spec2Model ----
(***************************************************************************)
(* Generation orchestration of the novel writer: the retry wrapper around  *)
(* every provider call (geminiService.ts), the structured-output parsing,  *)
(* the planning-batch loop (OutlineView.tsx) and the continuation run      *)
(* (WriterInterface.tsx), with the Document updates of App.tsx.            *)
(*                                                                         *)
(* Strings are modelled by what the code reads of them.  An error message  *)
(* is a sequence of characters, a provider response text a sequence of     *)
(* lexical tokens, a chapter body a record naming its author and length.   *)
(***************************************************************************)
EXTENDS Integers, Sequences, FiniteSets, TLC

VARIABLES
    \* callAIWithRetry: one call of the wrapper, recursion unrolled
    rPc,        \* "idle" | "invoke" | "delay" | "returned" | "thrown"
    rRetries,   \* the `retries` argument of the current recursion level
    rBaseDelay, \* the `baseDelay` argument of the current recursion level
    rCalls,     \* history: how many times operation() was invoked
    rWaits,     \* history: the delays waited, in order
    rOutcomes,  \* history: the outcome of every invocation, in order
    rResult,    \* the outcome the wrapper settles with
    \* SetupForm: the recommend-configuration button (handleAutoFill)
    sfConfig,      \* useState config: the form's NovelConfig
    sfAutoFilling, \* useState isAutoFilling
    sfAlerts,      \* history: the alert() messages shown, in order
    sfOnSave,      \* history: the configurations handed to props.onSave
    \* App: the active Document (Novel)
    docChapters,   \* activeNovel.chapters
    docStep,       \* activeNovel.step
    docTarget,     \* activeNovel.config.targetChapterCount
    uuid,          \* how many identities crypto.randomUUID has handed out
    \* OutlineView.handleGenerateChapters
    ovPc,          \* "idle" | "call" | "pause"
    ovGenerating,  \* useState isGenerating
    ovProgress,    \* useState progress
    allChapters,   \* the loop's accumulated chapters
    ovBatch,       \* startIndex and currentBatchSize of the call in flight
    ovAlerts,      \* history: how many alert() boxes were shown
    ovAnswer,      \* history: what the provider answered to the last batch call
    ovBatches,     \* history: the batch calls of this loop and what each returned
    \* WriterInterface: the continuation run (handleBatchGenerate)
    wPc,           \* "idle" | "call" | "save" | "pause"
    wActive,       \* useState activeChapterId, 0 for null
    wGenerating,   \* useState isGenerating
    wProgress,     \* useState batchProgress
    wAbort,        \* abortBatchRef.current
    chapters,      \* the `chapters` prop the running handler closed over
    localChapters, \* the run's local copy
    startIndex,    \* the run's first position (0-based)
    wI,            \* the loop variable i
    fsReady,       \* App isFileSystemReady
    wSaving,       \* the saveChapterData call in flight
    wContext,      \* the context handed to the generateChapterContent call
    wAlerts,       \* history: how many alert() boxes were shown
    wRuns,         \* history: how many runs were started
    wCalls,        \* history: generateChapterContent calls of this run
    wHanded,       \* history: saveChapterData calls of this run
    wReported,     \* history: the last batchProgress.current of this run
    wStop,         \* history: the calls and merges of this run when the stop
                   \* button set the flag
    wEnded,        \* history: the terminal outcome the last run logged
    wEvents,       \* history: clicks and keystrokes of the user (runs aside)
                   \* and empty answers of the provider
    \* App: the open Document's view and handleConfigSave
    appActive,     \* activeNovelId is set: the Document's view is mounted
    appGenerating, \* App useState isGenerating
    cfgSaves,      \* the handleConfigSave invocations that have not finished
    cfgStarted,    \* history: how many handleConfigSave invocations started
    docOutline,    \* the Document's outline
    docConfig,     \* the Document's config
    appAlerts,     \* history: alert() boxes of handleConfigSave
    \* the chapters directory of the connected folder, and the editor's timer
    disk,          \* per position of the list: the chapter file's body, if any
    edTimer,       \* saveTimeoutRef: the editor's pending debounced save
    wSaveFailures, \* history: saveChapter calls that could not write
    \* App: the collection of Documents
    novels,        \* useState novels
    activeNovelId, \* useState activeNovelId, 0 for null
    now,           \* Date.now()
    libSaves,      \* the closures of the handleConfigSave calls in flight
    stored,        \* localStorage item gemini_novel_library
    libOp          \* history: the last operation applied to the collection

retryVars == <<rPc, rRetries, rBaseDelay, rCalls, rWaits, rOutcomes, rResult>>

appVars ==
    <<appActive, appGenerating, cfgSaves, cfgStarted, docOutline, docConfig,
      appAlerts>>

setupVars == <<sfConfig, sfAutoFilling, sfAlerts, sfOnSave, appVars>>

docVars == <<docChapters, docStep, docTarget, uuid>>

planVars ==
    <<ovPc, ovGenerating, ovProgress, allChapters, ovBatch, ovAlerts, ovAnswer,
      ovBatches>>

diskVars == <<disk, edTimer, wSaveFailures>>

libVars == <<novels, activeNovelId, now, libSaves, stored, libOp>>

writerVars ==
    <<wPc, wActive, wGenerating, wProgress, wAbort, chapters, localChapters,
      startIndex, wI, fsReady, wSaving, wContext, wAlerts, wRuns, wCalls, wHanded,
      wReported, wStop, wEnded, wEvents, diskVars, libVars>>

vars == <<retryVars, setupVars, docVars, planVars, writerVars>>

\* what each component leaves alone
notRetryVars == <<setupVars, docVars, planVars, writerVars>>

notSetupVars == <<docVars, planVars, writerVars>>

notPlanVars == <<setupVars, writerVars>>

notWriterVars == <<setupVars, planVars, docStep, docTarget, uuid>>

(***************************************************************************)
(* Values, failures and outcomes of an asynchronous operation.             *)
(***************************************************************************)
NoValue == [kind |-> "none"]

\* error.message is absent (has = FALSE) or a string (its characters)
NoMessage == [has |-> FALSE, text |-> <<>>]

Msg(chars) == [has |-> TRUE, text |-> chars]

\* error.status is a number, 0 standing for an absent status
Err(status, message) == [status |-> status, message |-> message]

NoError == Err(0, NoMessage)

Ok(v) == [ok |-> TRUE, value |-> v, error |-> NoError]

Fail(e) == [ok |-> FALSE, value |-> NoValue, error |-> e]

NoOutcome == [ok |-> FALSE, value |-> NoValue, error |-> NoError]

\* String.prototype.includes: needle occurs as a contiguous run of text
Includes(text, needle) ==
    \E i \in 0..(Len(text) - Len(needle)) :
        \A j \in 1..Len(needle) : text[i + j] = needle[j]

Overloaded == <<"o", "v", "e", "r", "l", "o", "a", "d", "e", "d">>

\* the test of the catch block: 503, 500, or "overloaded" in the message
IsTransient(e) ==
    \/ e.status = 503
    \/ e.status = 500
    \/ (e.message.has /\ Includes(e.message.text, Overloaded))

DefaultRetries == 3

DefaultBaseDelay == 2000

(***************************************************************************)
(* callAIWithRetry.  RetryCall enters the wrapper with the default         *)
(* arguments; RetryInvoke is `await operation()` and the catch block's     *)
(* decision; RetryDelay is `await delay(baseDelay)` and the recursive call *)
(* with retries - 1 and baseDelay * 2.                                     *)
(***************************************************************************)
RetryIdle ==
    /\ rPc = "idle"
    /\ rRetries = DefaultRetries
    /\ rBaseDelay = DefaultBaseDelay
    /\ rCalls = 0
    /\ rWaits = <<>>
    /\ rOutcomes = <<>>
    /\ rResult = NoOutcome

RetryCall ==
    /\ rPc = "idle"
    /\ rPc' = "invoke"
    /\ rRetries' = DefaultRetries
    /\ rBaseDelay' = DefaultBaseDelay
    /\ rCalls' = 0
    /\ rWaits' = <<>>
    /\ rOutcomes' = <<>>
    /\ rResult' = NoOutcome

\* the delay the wrapper passes to the next recursion level
NextDelayConstant(d) == d

NextDelay(d) == d * 2

\* a catch block that always retries while the budget lasts
ShouldRetryAlways(retries, e) == retries > 0

ShouldRetry(retries, e) == retries > 0 /\ IsTransient(e)

RetryInvoke(outcomes) ==
    /\ rPc = "invoke"
    /\ \E o \in outcomes :
        /\ rCalls' = rCalls + 1
        /\ rOutcomes' = Append(rOutcomes, o)
        /\ IF o.ok
           THEN /\ rPc' = "returned"
                /\ rResult' = o
           ELSE IF ShouldRetry(rRetries, o.error)
           THEN /\ rPc' = "delay"
                /\ rResult' = rResult
           ELSE /\ rPc' = "thrown"
                /\ rResult' = o
    /\ UNCHANGED <<rRetries, rBaseDelay, rWaits>>

\* a recursion that forgets to spend the budget
NextRetriesSame(r) == r

NextRetries(r) == r - 1

RetryDelay ==
    /\ rPc = "delay"
    /\ rWaits' = Append(rWaits, rBaseDelay)
    /\ rRetries' = NextRetries(rRetries)
    /\ rBaseDelay' = NextDelay(rBaseDelay)
    /\ rPc' = "invoke"
    /\ UNCHANGED <<rCalls, rOutcomes, rResult>>

RetrySettled == rPc \in {"returned", "thrown"}

\* the caller has consumed the settled promise
RetryReset ==
    /\ rPc' = "idle"
    /\ rRetries' = DefaultRetries
    /\ rBaseDelay' = DefaultBaseDelay
    /\ rCalls' = 0
    /\ rWaits' = <<>>
    /\ rOutcomes' = <<>>
    /\ rResult' = NoOutcome

(***************************************************************************)
(* Provider response texts and structured output.  A text is a sequence of *)
(* tokens: a markdown fence, a word, white space, or one JSON literal      *)
(* carrying the value it denotes; "junk" is text that is not JSON.         *)
(***************************************************************************)
\* a JSON value: an object (obj: its members), an array (items) or null
JObject(members) == [kind |-> "object", obj |-> members, items |-> <<>>]

JArray(items) == [kind |-> "array", obj |-> <<>>, items |-> items]

JNull == [kind |-> "null", obj |-> <<>>, items |-> <<>>]

Tok(t) == [t |-> t, v |-> JNull]

DocTok(v) == [t |-> "doc", v |-> v]

FenceTok == Tok("fence")

IsSpace(tok) == tok.t = "ws"

RECURSIVE TrimStart(_)
TrimStart(text) ==
    IF text # <<>> /\ IsSpace(Head(text)) THEN TrimStart(Tail(text)) ELSE text

RECURSIVE TrimEnd(_)
TrimEnd(text) ==
    IF text # <<>> /\ IsSpace(text[Len(text)])
    THEN TrimEnd(SubSeq(text, 1, Len(text) - 1))
    ELSE text

\* String.prototype.trim
Trim(text) == TrimEnd(TrimStart(text))

\* replace(/^```json\s*/i, "")
StripJsonFence(text) ==
    IF Len(text) >= 2 /\ text[1].t = "fence" /\ text[2].t = "json"
    THEN TrimStart(SubSeq(text, 3, Len(text)))
    ELSE text

\* replace(/^```\s*/, "")
StripOpenFence(text) ==
    IF Len(text) >= 1 /\ text[1].t = "fence" THEN TrimStart(Tail(text)) ELSE text

\* replace(/\s*```$/, "")
StripCloseFence(text) ==
    IF Len(text) >= 1 /\ text[Len(text)].t = "fence"
    THEN TrimEnd(SubSeq(text, 1, Len(text) - 1))
    ELSE text

\* the literal "{}"
EmptyObjectText == <<DocTok(JObject(<<>>))>>

\* the literal "[]"
EmptyArrayText == <<DocTok(JArray(<<>>))>>

cleanJson(text) ==
    IF text = <<>> THEN EmptyObjectText
    ELSE Trim(StripCloseFence(StripOpenFence(StripJsonFence(Trim(text)))))

\* JSON.parse accepts one JSON literal with white space around it
JsonParses(text) == Len(Trim(text)) = 1 /\ Trim(text)[1].t = "doc"

JsonValue(text) == Trim(text)[1].v

\* `response.text || fallback`: an absent and an empty text are both <<>>
OrElse(text, fallback) == IF text = <<>> THEN fallback ELSE text

(***************************************************************************)
(* NovelConfig and generateTrendConfig.                                    *)
(***************************************************************************)
StringFields ==
    {"title", "genre", "tone", "protagonist", "worldSetting", "writingStyle",
     "additionalNotes"}

NumberFields == {"targetChapterCount", "targetWordCount"}

ConfigFields == StringFields \cup NumberFields

\* responseSchema.required
RequiredFields == {"title", "genre", "protagonist", "worldSetting", "writingStyle"}

INITIAL_CONFIG ==
    [f \in ConfigFields |->
        CASE f \in {"genre", "tone", "writingStyle"} -> "preset"
          [] f = "targetChapterCount" -> 50
          [] f = "targetWordCount" -> 3000
          [] OTHER -> ""]

\* an object the provider wrote, holding the members named
AiMembers(names) ==
    [f \in names |->
        CASE f = "targetChapterCount" -> 120
          [] f = "targetWordCount" -> 2800
          [] OTHER -> "ai"]

FormatError == Err(0, Msg(<<"A", "I", " ", "f", "o", "r", "m", "a", "t">>))

\* try { return JSON.parse(cleanJson(response.text || "{}")) } catch { throw }
TrendParse(text) ==
    IF JsonParses(cleanJson(OrElse(text, EmptyObjectText)))
    THEN Ok(JsonValue(cleanJson(OrElse(text, EmptyObjectText))))
    ELSE Fail(FormatError)

\* the operation generateTrendConfig hands to callAIWithRetry: the provider
\* call throws, or answers with a text that is then parsed
TrendOperation(response) ==
    IF response.ok THEN TrendParse(response.value.text) ELSE response

TextValue(text) == [kind |-> "text", text |-> text]

\* the provider's failures as the callers of the wrapper see them
ProviderErrors ==
    { Err(503, Msg(<<"m", "o", "d", "e", "l", " ">> \o Overloaded)),
      Err(429, Msg(<<"q", "u", "o", "t", "a">>)) }

TrendObjects ==
    { JObject(AiMembers(ConfigFields)),
      JObject(AiMembers(RequiredFields)),
      JObject(AiMembers(ConfigFields \ {"title"})),
      JObject(AiMembers({"tone", "targetChapterCount"})),
      JObject(<<>>),
      JArray(<<>>),
      JNull }

TrendPayloads ==
    { <<DocTok(v)>> : v \in TrendObjects } \cup { <<Tok("junk")>>, <<>> }

TextPrefixes ==
    { <<>>, <<Tok("ws")>>, <<FenceTok, Tok("json"), Tok("ws")>>,
      <<FenceTok, Tok("ws")>>, <<FenceTok, Tok("word"), Tok("ws")>> }

TextSuffixes == { <<>>, <<Tok("ws")>>, <<Tok("ws"), FenceTok>> }

TrendTexts ==
    { p \o d \o x : p \in TextPrefixes, d \in TrendPayloads, x \in TextSuffixes }

TrendResponses ==
    { Ok(TextValue(t)) : t \in TrendTexts } \cup { Fail(e) : e \in ProviderErrors }

(***************************************************************************)
(* SetupForm.handleAutoFill.                                               *)
(***************************************************************************)
NoOutline == [src |-> "none", n |-> 0]

\* the outline text of the n-th handleConfigSave, or the fallback string
Outline(src, n) == [src |-> src, n |-> n]

AppIdle ==
    /\ appActive = TRUE
    /\ appGenerating = FALSE
    /\ cfgSaves = <<>>
    /\ cfgStarted = 0
    /\ docOutline = NoOutline
    /\ docConfig = INITIAL_CONFIG
    /\ appAlerts = 0

SetupIdle ==
    /\ sfConfig = INITIAL_CONFIG
    /\ sfAutoFilling = FALSE
    /\ sfAlerts = <<>>
    /\ sfOnSave = <<>>
    /\ AppIdle

\* one handleConfigSave invocation: where it is suspended, the wrapper's
\* arguments at that level, and what its closure holds
ConfigSave(pc, retries, baseDelay, config, snapshot, n) ==
    [pc |-> pc, retries |-> retries, baseDelay |-> baseDelay, config |-> config,
     chapters |-> snapshot, n |-> n]

\* App.handleConfigSave up to its first await: setIsGenerating(true),
\* updateActiveNovel({ config }), then saveConfigToDisk or the provider call
handleConfigSave(newConfig) ==
    /\ appGenerating' = TRUE
    /\ docConfig' = newConfig
    /\ docTarget' = newConfig["targetChapterCount"]
    /\ cfgStarted' = cfgStarted + 1
    /\ cfgSaves' = Append(cfgSaves,
            ConfigSave(IF fsReady THEN "saveConfig" ELSE "call", DefaultRetries,
                       DefaultBaseDelay, newConfig, docChapters, cfgStarted + 1))
    /\ UNCHANGED <<appActive, docOutline, appAlerts>>

\* x || d for a number member that may be absent
NumberOr(obj, f, d) == IF f \in DOMAIN obj /\ obj[f] # 0 THEN obj[f] ELSE d

\* { ...config, ...trendConfig, targetChapterCount: .. || 80, targetWordCount: .. || 3000 }
MergeConfig(config, trend) ==
    [f \in ConfigFields |->
        CASE f = "targetChapterCount" -> NumberOr(trend.obj, f, 80)
          [] f = "targetWordCount" -> NumberOr(trend.obj, f, 3000)
          [] OTHER -> IF f \in DOMAIN trend.obj THEN trend.obj[f] ELSE config[f]]

\* the SetupForm is on screen
SetupMounted == appActive /\ docStep = "SETUP"

\* the click: setIsAutoFilling(true) and the call of generateTrendConfig
AutoFillClick ==
    /\ SetupMounted
    /\ ~sfAutoFilling
    /\ ~appGenerating
    /\ rPc = "idle"
    /\ sfAutoFilling' = TRUE
    /\ RetryCall
    /\ UNCHANGED <<sfConfig, sfAlerts, sfOnSave, appVars>>
    /\ UNCHANGED notSetupVars

AutoFillInvoke ==
    /\ sfAutoFilling
    /\ RetryInvoke({ TrendOperation(r) : r \in TrendResponses })
    /\ UNCHANGED setupVars
    /\ UNCHANGED notSetupVars

AutoFillBackoff ==
    /\ sfAutoFilling
    /\ RetryDelay
    /\ UNCHANGED setupVars
    /\ UNCHANGED notSetupVars

\* the await resumes with a value: merge, setConfig, onSave, onForceSave;
\* reading a member of null throws a TypeError, which the catch block alerts
AutoFillReturned ==
    /\ sfAutoFilling
    /\ rPc = "returned"
    /\ IF rResult.value.kind = "null"
       THEN /\ sfAlerts' = Append(sfAlerts, "autofill failed")
            /\ UNCHANGED <<sfConfig, sfOnSave, appVars, docTarget>>
       ELSE /\ sfConfig' = MergeConfig(sfConfig, rResult.value)
            /\ sfOnSave' = Append(sfOnSave, MergeConfig(sfConfig, rResult.value))
            /\ handleConfigSave(MergeConfig(sfConfig, rResult.value))
            /\ UNCHANGED sfAlerts
    /\ sfAutoFilling' = FALSE
    /\ RetryReset
    /\ UNCHANGED <<docChapters, docStep, uuid, planVars, writerVars>>

\* the await resumes with a throw: the catch block alerts
AutoFillThrown ==
    /\ sfAutoFilling
    /\ rPc = "thrown"
    /\ sfAlerts' = Append(sfAlerts, "autofill failed")
    /\ sfAutoFilling' = FALSE
    /\ RetryReset
    /\ UNCHANGED <<sfConfig, sfOnSave, appVars>>
    /\ UNCHANGED notSetupVars

(***************************************************************************)
(* The setup page around the form: the submit button, the form's 3 s       *)
(* debounce effect, and the rest of App.handleConfigSave.                  *)
(***************************************************************************)
\* handleSubmit -> onSave(config); the button is disabled while
\* isGenerating || isAutoFilling
SubmitClick ==
    /\ SetupMounted
    /\ ~appGenerating
    /\ ~sfAutoFilling
    /\ handleConfigSave(sfConfig)
    /\ UNCHANGED <<sfConfig, sfAutoFilling, sfAlerts, sfOnSave>>
    /\ UNCHANGED <<retryVars, docChapters, docStep, uuid, planVars, writerVars>>

\* the effect's timer fires: onSave(config); onForceSave().  The effect
\* depends on onForceSave, a new function at every render of App, so a
\* timer is pending whenever the form is on screen
DebounceFire ==
    /\ SetupMounted
    /\ handleConfigSave(sfConfig)
    /\ UNCHANGED <<sfConfig, sfAutoFilling, sfAlerts, sfOnSave>>
    /\ UNCHANGED <<retryVars, docChapters, docStep, uuid, planVars, writerVars>>

RemoveAt(seq, i) == SubSeq(seq, 1, i - 1) \o SubSeq(seq, i + 1, Len(seq))

\* what the provider answers to a generateOutline request
OutlineResponses(n) ==
    { Ok(Outline("ai", n)), Ok(NoOutline) } \cup { Fail(e) : e \in ProviderErrors }

\* return response.text || "生成失败，请重试。"
OutlineText(answer) == IF answer = NoOutline THEN Outline("fallback", 0) ELSE answer

\* `finally { setIsGenerating(false) }` of the i-th invocation
ConfigSaveFinally(i) ==
    /\ appGenerating' = FALSE
    /\ cfgSaves' = RemoveAt(cfgSaves, i)

\* await saveConfigToDisk(..) resumes
ConfigSaved ==
    \E i \in DOMAIN cfgSaves :
        /\ cfgSaves[i].pc = "saveConfig"
        /\ cfgSaves' = [cfgSaves EXCEPT ![i].pc = "call"]
        /\ UNCHANGED <<appActive, appGenerating, cfgStarted, docOutline, docConfig, appAlerts>>
        /\ UNCHANGED <<sfConfig, sfAutoFilling, sfAlerts, sfOnSave>>
        /\ UNCHANGED <<retryVars, docVars, planVars, writerVars>>

\* the provider answers the generateOutline request of one invocation: the
\* wrapper retries, throws into the catch block, or the handler resumes with
\* the text and replaces the Document by its closure's copy with the new
\* config, the outline and step OUTLINE
OutlineInvoke ==
    \E i \in DOMAIN cfgSaves :
        /\ cfgSaves[i].pc = "call"
        /\ \E o \in OutlineResponses(cfgSaves[i].n) :
            IF o.ok
            THEN /\ docOutline' = OutlineText(o.value)
                 /\ docStep' = "OUTLINE"
                 /\ docChapters' = cfgSaves[i].chapters
                 /\ docConfig' = cfgSaves[i].config
                 /\ docTarget' = cfgSaves[i].config["targetChapterCount"]
                 /\ IF fsReady
                    THEN /\ cfgSaves' = [cfgSaves EXCEPT ![i].pc = "saveOutline"]
                         /\ UNCHANGED appGenerating
                    ELSE ConfigSaveFinally(i)
                 /\ UNCHANGED appAlerts
            ELSE IF ShouldRetry(cfgSaves[i].retries, o.error)
            THEN /\ cfgSaves' = [cfgSaves EXCEPT ![i].pc = "delay"]
                 /\ UNCHANGED <<appGenerating, appAlerts, docOutline, docConfig, docVars>>
            ELSE /\ appAlerts' = appAlerts + 1
                 /\ ConfigSaveFinally(i)
                 /\ UNCHANGED <<docOutline, docConfig, docVars>>
        /\ UNCHANGED <<appActive, cfgStarted, uuid>>
        /\ UNCHANGED <<sfConfig, sfAutoFilling, sfAlerts, sfOnSave>>
        /\ UNCHANGED <<retryVars, planVars, writerVars>>

\* await delay(baseDelay) of one invocation's wrapper ends
OutlineBackoff ==
    \E i \in DOMAIN cfgSaves :
        /\ cfgSaves[i].pc = "delay"
        /\ cfgSaves' = [cfgSaves EXCEPT ![i].pc = "call",
                                        ![i].retries = NextRetries(@),
                                        ![i].baseDelay = NextDelay(@)]
        /\ UNCHANGED <<appActive, appGenerating, cfgStarted, docOutline, docConfig, appAlerts>>
        /\ UNCHANGED <<sfConfig, sfAutoFilling, sfAlerts, sfOnSave>>
        /\ UNCHANGED <<retryVars, docVars, planVars, writerVars>>

\* await saveOutlineToDisk(..) resumes, then the finally block
OutlineSaved ==
    \E i \in DOMAIN cfgSaves :
        /\ cfgSaves[i].pc = "saveOutline"
        /\ ConfigSaveFinally(i)
        /\ UNCHANGED <<appActive, cfgStarted, docOutline, docConfig, appAlerts>>
        /\ UNCHANGED <<sfConfig, sfAutoFilling, sfAlerts, sfOnSave>>
        /\ UNCHANGED <<retryVars, docVars, planVars, writerVars>>

\* the header's library button, SetupForm onCancel, WriterInterface onBack
CloseNovel ==
    /\ appActive
    /\ appActive' = FALSE
    /\ UNCHANGED <<appGenerating, cfgSaves, cfgStarted, docOutline, docConfig, appAlerts>>
    /\ UNCHANGED <<sfConfig, sfAutoFilling, sfAlerts, sfOnSave>>
    /\ UNCHANGED <<retryVars, docVars, planVars, writerVars>>

\* Library onSelect: the Document's view is mounted again; a SetupForm
\* starts from useState(initialConfig).  sfAutoFilling stays set while a
\* handleAutoFill of the earlier form instance is still awaiting its answer.
OpenNovel ==
    /\ ~appActive
    /\ appActive' = TRUE
    /\ sfConfig' = IF docStep = "SETUP" THEN docConfig ELSE sfConfig
    /\ UNCHANGED <<appGenerating, cfgSaves, cfgStarted, docOutline, docConfig, appAlerts>>
    /\ UNCHANGED <<sfAutoFilling, sfAlerts, sfOnSave>>
    /\ UNCHANGED <<retryVars, docVars, planVars, writerVars>>

\* OutlineView onBack -> updateActiveNovel({ step: SETUP })
OutlineBack ==
    /\ appActive
    /\ docStep = "OUTLINE"
    /\ docStep' = "SETUP"
    /\ sfConfig' = docConfig
    /\ UNCHANGED <<docChapters, docTarget, uuid>>
    /\ UNCHANGED <<sfAutoFilling, sfAlerts, sfOnSave, appVars>>
    /\ UNCHANGED <<retryVars, planVars, writerVars>>

(***************************************************************************)
(* Chapters and the Document.  A chapter body is a record: who wrote it    *)
(* (src), which text of that author it is (n), and its length in           *)
(* characters.                                                             *)
(***************************************************************************)
Body(src, n, len) == [src |-> src, n |-> n, len |-> len]

\* content: ""
EmptyBody == Body("", 0, 0)

Chapter(id, title, summary, content, isGenerated) ==
    [id |-> id, title |-> title, summary |-> summary, content |-> content,
     isGenerated |-> isGenerated]

\* a Document that is not part of the scenario: a new novel, nothing planned
DocIdle ==
    /\ docChapters = <<>>
    /\ docStep = "SETUP"
    /\ docTarget = INITIAL_CONFIG["targetChapterCount"]
    /\ uuid = 0

\* App.handleChaptersGenerated -> updateActiveNovel({ chapters, step: WRITING })
handleChaptersGenerated(generatedChapters) ==
    /\ docChapters' = generatedChapters
    /\ docStep' = "WRITING"

(***************************************************************************)
(* generateChapterBatch: the operation handed to callAIWithRetry.          *)
(***************************************************************************)
\* one entry of the provider's array: { title, summary }
BatchItem(n) == JObject([f \in {"title", "summary"} |-> n])

\* data.map(item => ({ id: crypto.randomUUID(), title, summary, content: "",
\* isGenerated: false })), the identities taken after `from`
MapItems(items, from) ==
    [i \in 1..Len(items) |->
        Chapter(from + i, items[i].obj["title"], items[i].obj["summary"],
                EmptyBody, FALSE)]

\* try { data = JSON.parse(cleanJson(response.text || "[]"));
\*       if (!Array.isArray(data)) return []; return data.map(..) }
\* catch { return [] }
BatchParse(text, from) ==
    IF ~JsonParses(cleanJson(OrElse(text, EmptyArrayText))) THEN <<>>
    ELSE IF JsonValue(cleanJson(OrElse(text, EmptyArrayText))).kind # "array" THEN <<>>
    ELSE MapItems(JsonValue(cleanJson(OrElse(text, EmptyArrayText))).items, from)

ListValue(list) == [kind |-> "list", list |-> list]

\* an operation that throws the format error on anything but an array
BatchOperationRaises(response, from) ==
    IF ~response.ok THEN response
    ELSE IF /\ JsonParses(cleanJson(OrElse(response.value.text, EmptyArrayText)))
            /\ JsonValue(cleanJson(OrElse(response.value.text, EmptyArrayText))).kind = "array"
    THEN Ok(ListValue(BatchParse(response.value.text, from)))
    ELSE Fail(FormatError)

BatchOperation(response, from) ==
    IF response.ok THEN Ok(ListValue(BatchParse(response.value.text, from)))
    ELSE response

\* how many entries the provider may answer with when asked for `size`
BatchCounts(size) == { k \in {0, 1, size - 1, size, size + 1} : k >= 0 }

\* entries numbered as the chapters the prompt asks for
BatchArray(start, k) == JArray([i \in 1..k |-> BatchItem(start + i)])

BatchPayloads(start, size) ==
    { <<DocTok(BatchArray(start, k))>> : k \in BatchCounts(size) }
        \cup { <<DocTok(JObject(<<>>))>>, <<Tok("junk")>>, <<>> }

BatchTexts(start, size) ==
    BatchPayloads(start, size)
        \cup { <<FenceTok, Tok("json"), Tok("ws")>> \o d \o <<Tok("ws"), FenceTok>> :
                 d \in BatchPayloads(start, size) }

BatchResponses(start, size) ==
    { Ok(TextValue(t)) : t \in BatchTexts(start, size) }
        \cup { Fail(e) : e \in ProviderErrors }

(***************************************************************************)
(* OutlineView.handleGenerateChapters: the planning-batch loop.            *)
(***************************************************************************)
BATCH_SIZE == 20

NoProgress == [has |-> FALSE, current |-> 0, total |-> 0]

Progress(current, total) == [has |-> TRUE, current |-> current, total |-> total]

NoBatch == [startIndex |-> 0, size |-> 0]

\* a minimum that always takes its first argument
MinIsFirst(a, b) == a

Min(a, b) == IF a < b THEN a ELSE b

PlanIdle ==
    /\ ovPc = "idle"
    /\ ovGenerating = FALSE
    /\ ovProgress = NoProgress
    /\ allChapters = <<>>
    /\ ovBatch = NoBatch
    /\ ovAlerts = 0
    /\ ovAnswer = NoOutcome
    /\ ovBatches = <<>>

\* finally { setIsGenerating(false); setProgress(null) }
PlanFinally ==
    /\ ovGenerating' = FALSE
    /\ ovProgress' = NoProgress
    /\ ovPc' = "idle"
    /\ ovBatch' = NoBatch

\* a call of generateChapterBatch and how many chapters it returned (-1: none yet)
BatchCall(from, size, got) == [startIndex |-> from, size |-> size, got |-> got]

\* the head of the while loop with `all` accumulated: another batch call,
\* or the loop is over and the chapters are committed
PlanLoop(all, calls) ==
    IF Len(all) < docTarget
    THEN /\ ovBatch' = [startIndex |-> Len(all),
                        size |-> Min(BATCH_SIZE, docTarget - Len(all))]
         /\ ovBatches' = Append(calls, BatchCall(ovBatch'.startIndex, ovBatch'.size, -1))
         /\ ovPc' = "call"
         /\ ovAnswer' = NoOutcome
         /\ RetryCall
         /\ UNCHANGED <<docChapters, docStep>>
    ELSE /\ handleChaptersGenerated(all)
         /\ PlanFinally
         /\ ovBatches' = calls
         /\ UNCHANGED <<retryVars, ovAnswer>>

\* the click on "generate chapters", up to the first await
PlanClick ==
    /\ docStep = "OUTLINE"
    /\ ~ovGenerating
    /\ rPc = "idle"
    /\ allChapters' = <<>>
    /\ IF 0 < docTarget
       THEN /\ ovGenerating' = TRUE
            /\ ovProgress' = Progress(0, docTarget)
            /\ PlanLoop(<<>>, <<>>)
       ELSE PlanLoop(<<>>, <<>>)
    /\ UNCHANGED <<docTarget, uuid, ovAlerts>>
    /\ UNCHANGED notPlanVars

PlanInvoke ==
    /\ ovPc = "call"
    /\ \E r \in BatchResponses(ovBatch.startIndex, ovBatch.size) :
        /\ RetryInvoke({ BatchOperation(r, uuid) })
        /\ ovAnswer' = r
    /\ UNCHANGED <<ovPc, ovGenerating, ovProgress, allChapters, ovBatch, ovAlerts,
                   ovBatches>>
    /\ UNCHANGED docVars
    /\ UNCHANGED notPlanVars

PlanBackoff ==
    /\ ovPc = "call"
    /\ RetryDelay
    /\ UNCHANGED <<docVars, planVars>>
    /\ UNCHANGED notPlanVars

\* the await resumes with newBatch: accumulate, report, start the pause
PlanReturned ==
    /\ ovPc = "call"
    /\ rPc = "returned"
    /\ allChapters' = allChapters \o rResult.value.list
    /\ uuid' = uuid + Len(rResult.value.list)
    /\ ovProgress' = Progress(Len(allChapters'), docTarget)
    /\ ovPc' = "pause"
    /\ RetryReset
    /\ ovBatches' = [ovBatches EXCEPT ![Len(ovBatches)].got = Len(rResult.value.list)]
    /\ UNCHANGED <<docChapters, docStep, docTarget, ovGenerating, ovBatch, ovAlerts,
                   ovAnswer>>
    /\ UNCHANGED notPlanVars

\* the 500 ms pause is over: back to the head of the loop
PlanPause ==
    /\ ovPc = "pause"
    /\ PlanLoop(allChapters, ovBatches)
    /\ IF Len(allChapters) < docTarget
       THEN UNCHANGED <<ovGenerating, ovProgress>>
       ELSE TRUE
    /\ UNCHANGED <<docTarget, uuid, allChapters, ovAlerts>>
    /\ UNCHANGED notPlanVars

\* a catch block that throws the accumulated chapters away
CatchCommitsNever(all) == FALSE

\* if (allChapters.length > 0) onChaptersGenerated(allChapters)
CatchCommits(all) == Len(all) > 0

\* the await resumes with a throw: alert, commit what there is, finally
PlanThrown ==
    /\ ovPc = "call"
    /\ rPc = "thrown"
    /\ ovAlerts' = ovAlerts + 1
    /\ IF CatchCommits(allChapters)
       THEN handleChaptersGenerated(allChapters)
       ELSE UNCHANGED <<docChapters, docStep>>
    /\ PlanFinally
    /\ RetryReset
    /\ UNCHANGED <<docTarget, uuid, allChapters, ovAnswer, ovBatches>>
    /\ UNCHANGED notPlanVars

(***************************************************************************)
(* The writing page before anybody opens it.                               *)
(***************************************************************************)
NoStop == [has |-> FALSE, calls |-> 0, merged |-> 0]

NoSave == [has |-> FALSE, index |-> 0, chapter |-> Chapter(0, 0, 0, EmptyBody, FALSE)]

Save(chapter, index) == [has |-> TRUE, index |-> index, chapter |-> chapter]

NoFile == [has |-> FALSE, body |-> EmptyBody]

File(body) == [has |-> TRUE, body |-> body]

NoTimer == [has |-> FALSE, index |-> 0, chapter |-> Chapter(0, 0, 0, EmptyBody, FALSE)]

Timer(chapter, index) == [has |-> TRUE, index |-> index, chapter |-> chapter]

\* the awaits of fileSystemService.saveChapter that may reject
SaveSteps ==
    {"getNovelDirectory", "getDirectoryHandle", "getFileHandle", "createWritable",
     "write", "close"}

SaveOutcomes == {"ok"} \cup SaveSteps

\* a saveChapter without its try/catch: a rejected await rejects the save
saveChapterUncaught(files, chapter, index, outcome) ==
    [raised |-> outcome # "ok",
     files |-> IF outcome = "ok"
               THEN [files EXCEPT ![index + 1] = File(chapter.content)]
               ELSE files]

\* fileSystemService.saveChapter: the file of position index holds the body
\* once close() has resolved; getNovelDirectory returns null and every other
\* rejection is caught and logged, so the promise always resolves
saveChapter(files, chapter, index, outcome) ==
    [raised |-> FALSE,
     files |-> IF outcome = "ok"
               THEN [files EXCEPT ![index + 1] = File(chapter.content)]
               ELSE files]

NoOp == [seq |-> 0, kind |-> "none", id |-> 0]

\* the k-th operation on the collection
Op(seq, kind, id) == [seq |-> seq, kind |-> kind, id |-> id]

\* localStorage.getItem(..) of an item never set is null
NoItem == [has |-> FALSE, array |-> FALSE, items |-> <<>>]

\* an App whose collection is not part of the scenario
LibraryIdle ==
    /\ novels = <<>>
    /\ stored = NoItem
    /\ activeNovelId = 0
    /\ now = 0
    /\ libSaves = <<>>
    /\ libOp = NoOp

\* a WriterInterface that is not part of the scenario
WriterClosed ==
    /\ LibraryIdle
    /\ disk = <<>>
    /\ edTimer = NoTimer
    /\ wSaveFailures = 0
    /\ wPc = "idle"
    /\ wActive = 0
    /\ wGenerating = FALSE
    /\ wProgress = NoProgress
    /\ wAbort = FALSE
    /\ chapters = <<>>
    /\ localChapters = <<>>
    /\ startIndex = 0
    /\ wI = 0
    /\ wSaving = NoSave
    /\ wContext = <<>>
    /\ wAlerts = 0
    /\ wRuns = 0
    /\ wCalls = 0
    /\ wHanded = 0
    /\ wReported = 0
    /\ wStop = NoStop
    /\ wEnded = "none"
    /\ wEvents = 0

WriterIdle == WriterClosed /\ fsReady = FALSE

(***************************************************************************)
(* The planning loop on its own, from the outline page of a Document.      *)
(***************************************************************************)
MaxTarget == 25

MaxAlerts == 2

MaxBatchCalls == 3

InitPlan ==
    /\ RetryIdle
    /\ SetupIdle
    /\ PlanIdle
    /\ WriterIdle
    /\ docChapters = <<>>
    /\ docStep = "OUTLINE"
    /\ docTarget \in 1..MaxTarget
    /\ uuid = 0

\* the loop goes round while the scenario allows another batch call
PlanContinue ==
    /\ Len(allChapters) < docTarget => Len(ovBatches) < MaxBatchCalls
    /\ PlanPause

NextPlan ==
    \/ (PlanClick /\ ovAlerts < MaxAlerts)
    \/ PlanInvoke
    \/ PlanBackoff
    \/ PlanReturned
    \/ PlanContinue
    \/ PlanThrown

SpecPlan == InitPlan /\ [][NextPlan]_vars

(***************************************************************************)
(* generateChapterContent: the operation handed to callAIWithRetry.        *)
(***************************************************************************)
\* the literal the code returns for an empty answer (7 characters)
FallbackBody == Body("fallback", 0, 7)

\* return response.text || <the fallback literal>
ContentText(text) == IF text.len = 0 THEN FallbackBody ELSE text

BodyValue(body) == [kind |-> "body", body |-> body]

ContentOperation(response) ==
    IF response.ok THEN Ok(BodyValue(ContentText(response.value.body))) ELSE response

\* the length of a chapter the provider writes (targetWordCount is 3000)
WrittenLength == 3200

\* the texts the provider may write for text number n: prose, or the very
\* seven characters of the literal
ContentTexts(n) == { Body("ai", n, WrittenLength), FallbackBody }

\* what the provider answers for text number n: prose, or (allowEmpty) the
\* seven characters or nothing
ContentResponses(n, allowEmpty) ==
    { Ok(BodyValue(Body("ai", n, WrittenLength))) }
        \cup (IF allowEmpty
              THEN { Ok(BodyValue(EmptyBody)), Ok(BodyValue(FallbackBody)) }
              ELSE {})
        \cup { Fail(e) : e \in ProviderErrors }

(***************************************************************************)
(* WriterInterface: chapter selection, the editor, the continuation run.   *)
(***************************************************************************)
chaptersToGenCount == 10

\* the body length above which the start search skips a chapter
WrittenThreshold == 500

\* Array.prototype.findIndex on the identity, 0-based, -1 when absent
FindIndex(list, id) ==
    IF \E k \in 1..Len(list) : list[k].id = id
    THEN (CHOOSE k \in 1..Len(list) :
              list[k].id = id /\ \A j \in 1..(k - 1) : list[j].id # id) - 1
    ELSE -1

\* a search that also passes over a body of exactly the threshold length
RECURSIVE FirstUnwrittenAtLeast(_, _)
FirstUnwrittenAtLeast(list, from) ==
    IF from < Len(list) /\ list[from + 1].content.len >= WrittenThreshold
    THEN FirstUnwrittenAtLeast(list, from + 1)
    ELSE from

\* while (startIndex < length && chapters[startIndex].content.length > 500) startIndex++
RECURSIVE FirstUnwritten(_, _)
FirstUnwritten(list, from) ==
    IF from < Len(list) /\ list[from + 1].content.len > WrittenThreshold
    THEN FirstUnwritten(list, from + 1)
    ELSE from

\* let currentIdx = findIndex(activeChapterId); if (currentIdx === -1) currentIdx = 0
CurrentIdx(list, id) == IF FindIndex(list, id) = -1 THEN 0 ELSE FindIndex(list, id)

\* text number of the chapter at 0-based position k written by run r
TextNumber(r, k) == r * 100 + k + 1

\* the chapter list button: onClick={() => !isGenerating && setActiveChapterId(id)}
SelectChapter ==
    /\ docStep = "WRITING"
    /\ ~wGenerating
    /\ \E k \in 1..Len(docChapters) :
        /\ docChapters[k].id # wActive
        /\ wActive' = docChapters[k].id
    /\ UNCHANGED <<wPc, wGenerating, wProgress, wAbort, chapters, localChapters,
                   startIndex, wI, fsReady, wSaving, wAlerts, wRuns, wCalls,
                   wHanded, wReported, wStop, wEnded>>
    /\ UNCHANGED <<retryVars, docVars, setupVars, planVars>>
    /\ UNCHANGED wContext
    /\ UNCHANGED <<diskVars, libVars>>

\* what the user may leave in the editor: nothing, or a short text
UserBodies(n) == { EmptyBody, Body("user", n, 120) }

\* updateChapterInState: chapters.map(c => c.id === updated.id ? updated : c)
ReplaceById(list, updated) ==
    [k \in 1..Len(list) |-> IF list[k].id = updated.id THEN updated ELSE list[k]]

\* handleEditorChange: the active chapter's body becomes what the editor holds
\* and the whole list is published
EditorChange(newContent) ==
    /\ docStep = "WRITING"
    /\ FindIndex(docChapters, wActive) # -1
    /\ docChapters[FindIndex(docChapters, wActive) + 1].content # newContent
    /\ docChapters' =
           ReplaceById(docChapters,
               [docChapters[FindIndex(docChapters, wActive) + 1]
                   EXCEPT !.content = newContent])
    /\ edTimer' = Timer([docChapters[FindIndex(docChapters, wActive) + 1]
                            EXCEPT !.content = newContent],
                        FindIndex(docChapters, wActive))
    /\ UNCHANGED <<disk, wSaveFailures, libVars>>
    /\ UNCHANGED <<wPc, wActive, wGenerating, wProgress, wAbort, chapters,
                   localChapters, startIndex, wI, fsReady, wSaving, wAlerts,
                   wRuns, wCalls, wHanded, wReported, wStop, wEnded>>
    /\ UNCHANGED <<retryVars, setupVars, planVars, docStep, docTarget, uuid>>
    /\ UNCHANGED wContext

\* handleStopBatch, behind the button shown while isGenerating && batchProgress
StopClick ==
    /\ wGenerating
    /\ wProgress.has
    /\ ~wAbort
    /\ wAbort' = TRUE
    /\ wStop' = [has |-> TRUE, calls |-> wCalls, merged |-> wHanded]
    /\ UNCHANGED <<wPc, wActive, wGenerating, wProgress, chapters, localChapters,
                   startIndex, wI, fsReady, wSaving, wAlerts, wRuns, wCalls,
                   wHanded, wReported, wEnded>>
    /\ UNCHANGED <<retryVars, docVars, setupVars, planVars>>
    /\ UNCHANGED wContext
    /\ UNCHANGED <<diskVars, libVars>>

\* a finally block that leaves the stop flag as it is
RunFinallyKeepsFlag(how) ==
    /\ wEnded' = how
    /\ wGenerating' = FALSE
    /\ wProgress' = NoProgress
    /\ wAbort' = wAbort
    /\ wPc' = "idle"

\* finally { setIsGenerating(false); setBatchProgress(null); abortBatchRef.current = false }
RunFinally(how) ==
    /\ wEnded' = how
    /\ wGenerating' = FALSE
    /\ wProgress' = NoProgress
    /\ wAbort' = FALSE
    /\ wPc' = "idle"

\* a for condition that lets one more iteration through
LoopGoesOnOneMore(i) == i <= chaptersToGenCount

\* for (let i = 0; i < chaptersToGenCount; i++)
LoopGoesOn(i) == i < chaptersToGenCount

\* a loop head that stops one chapter before the end of the list
ShouldBreakOneEarly(abort, i, list) == abort \/ startIndex + i + 1 >= Len(list)

\* a loop head that never reads the abort flag
ShouldBreakIgnoresAbort(abort, i, list) == startIndex + i >= Len(list)

\* if (abortBatchRef.current) break; if (targetIndex >= localChapters.length) break
ShouldBreak(abort, i, list) == abort \/ startIndex + i >= Len(list)

(***************************************************************************)
(* getContext.  A context is a sequence of parts: a fixed marker, a        *)
(* synopsis, or the characters from..to of a body.                         *)
(***************************************************************************)
Part(t, src, n, from, to) == [t |-> t, src |-> src, n |-> n, from |-> from, to |-> to]

\* the literal the code starts from: this is the first chapter
FirstChapterMarker == Part("first-marker", "", 0, 0, 0)

\* the literal in front of a synopsis
SummaryMarker == Part("summary-marker", "", 0, 0, 0)

\* the literal in front of the end of a body, with its "..."
BodyEndMarker == Part("body-end-marker", "", 0, 0, 0)

SummaryPart(summary) == Part("summary", "", summary, 0, 0)

\* the body length below which the synopsis is taken
ContextThreshold == 50

\* how many characters of the body are taken
ContextLength == 3000

\* String.prototype.slice(-k)
SliceEnd(body, k) ==
    Part("body", body.src, body.n, IF body.len > k THEN body.len - k ELSE 0, body.len)

\* a context builder that always takes the end of the body
getContextNoSynopsis(currentChap, all) ==
    IF FindIndex(all, currentChap.id) > 0
    THEN <<BodyEndMarker,
           SliceEnd(all[FindIndex(all, currentChap.id)].content, ContextLength)>>
    ELSE <<FirstChapterMarker>>

getContext(currentChap, all) ==
    IF FindIndex(all, currentChap.id) > 0
    THEN IF all[FindIndex(all, currentChap.id)].content.len < ContextThreshold
         THEN <<SummaryMarker, SummaryPart(all[FindIndex(all, currentChap.id)].summary)>>
         ELSE <<BodyEndMarker,
                SliceEnd(all[FindIndex(all, currentChap.id)].content, ContextLength)>>
    ELSE <<FirstChapterMarker>>

\* the click on the continuation button, up to the first await
RunClick ==
    /\ docStep = "WRITING"
    /\ ~wGenerating
    /\ wPc = "idle"
    /\ rPc = "idle"
    /\ Len(docChapters) > 0
    /\ FirstUnwritten(docChapters, CurrentIdx(docChapters, wActive)) < Len(docChapters)
    /\ chapters' = docChapters
    /\ startIndex' = FirstUnwritten(docChapters, CurrentIdx(docChapters, wActive))
    /\ localChapters' = docChapters
    /\ wGenerating' = TRUE
    /\ wRuns' = wRuns + 1
    /\ wHanded' = 0
    /\ wStop' = NoStop
    /\ wEnded' = "none"
    /\ wActive' = docChapters[startIndex' + 1].id
    /\ wProgress' = Progress(1, chaptersToGenCount)
    /\ wReported' = 1
    /\ wI' = 0
    /\ wCalls' = 1
    /\ wContext' = getContext(docChapters[startIndex' + 1], docChapters)
    /\ wPc' = "call"
    /\ wAbort' = FALSE
    /\ RetryCall
    /\ UNCHANGED <<fsReady, wSaving, wAlerts, wEvents>>
    /\ UNCHANGED <<docVars, setupVars, planVars>>
    /\ UNCHANGED <<diskVars, libVars>>

\* the click when there is nothing to do: an alert and no run
RunClickRefused ==
    /\ docStep = "WRITING"
    /\ ~wGenerating
    /\ wPc = "idle"
    /\ \/ Len(docChapters) = 0
       \/ FirstUnwritten(docChapters, CurrentIdx(docChapters, wActive)) >= Len(docChapters)
    /\ wAlerts' = wAlerts + 1
    /\ wAbort' = IF Len(docChapters) = 0 THEN wAbort ELSE FALSE
    /\ UNCHANGED <<wPc, wActive, wGenerating, wProgress, chapters, localChapters,
                   startIndex, wI, fsReady, wSaving, wRuns, wCalls, wHanded,
                   wReported, wStop, wEnded>>
    /\ UNCHANGED <<retryVars, docVars, setupVars, planVars>>
    /\ UNCHANGED wContext
    /\ UNCHANGED <<diskVars, libVars>>

\* the click while a generation is going on: if (isGenerating) return
RunClickBusy ==
    /\ docStep = "WRITING"
    /\ wGenerating
    /\ UNCHANGED vars

RunInvoke(allowEmpty) ==
    /\ wPc = "call"
    /\ RetryInvoke({ ContentOperation(r) :
                        r \in ContentResponses(TextNumber(wRuns, startIndex + wI),
                                               allowEmpty) })
    /\ wEvents' = IF rPc' = "returned" /\ rResult'.value.body = FallbackBody
                  THEN wEvents + 1 ELSE wEvents
    /\ UNCHANGED <<wPc, wActive, wGenerating, wProgress, wAbort, chapters,
                   localChapters, startIndex, wI, fsReady, wSaving, wAlerts,
                   wRuns, wCalls, wHanded, wReported, wStop, wEnded>>
    /\ UNCHANGED <<docVars, setupVars, planVars>>
    /\ UNCHANGED wContext
    /\ UNCHANGED <<diskVars, libVars>>

RunBackoff ==
    /\ wPc = "call"
    /\ RetryDelay
    /\ UNCHANGED writerVars
    /\ UNCHANGED <<docVars, setupVars, planVars>>

\* a merge that gives the unit a new identity
MergedReidentified(list, k, content) ==
    [list EXCEPT ![k] = [@ EXCEPT !.id = @ + Len(list), !.content = content,
                                  !.isGenerated = TRUE]]

\* a merge that sets the flag and forgets the content
MergedFlagOnly(list, k, content) == [list EXCEPT ![k] = [@ EXCEPT !.isGenerated = TRUE]]

\* a resume that drops the result once the stop button was pressed
MergedUnlessStopped(list, k, content) ==
    IF wAbort
    THEN list
    ELSE [list EXCEPT ![k] = [@ EXCEPT !.content = content, !.isGenerated = TRUE]]

\* localChapters[targetIndex] = { ...targetChapter, content, isGenerated: true }
Merged(list, k, content) ==
    [list EXCEPT ![k] = [@ EXCEPT !.content = content, !.isGenerated = TRUE]]

\* the await resumes with the content: update the local copy, publish it
\* (onUpdateChapters([...localChapters])), hand the unit to saveChapterData
RunReturned ==
    /\ wPc = "call"
    /\ rPc = "returned"
    /\ localChapters' = Merged(localChapters, startIndex + wI + 1, rResult.value.body)
    /\ docChapters' = localChapters'
    /\ wHanded' = wHanded + 1
    /\ IF fsReady
       THEN /\ wSaving' = Save(localChapters'[startIndex + wI + 1], startIndex + wI)
            /\ wPc' = "save"
       ELSE /\ wSaving' = NoSave
            /\ wPc' = "pause"
    /\ RetryReset
    /\ UNCHANGED <<wActive, wGenerating, wProgress, wAbort, chapters, startIndex,
                   wI, fsReady, wAlerts, wRuns, wCalls, wReported, wStop, wEnded,
                   wEvents>>
    /\ UNCHANGED <<docStep, docTarget, uuid, setupVars, planVars>>
    /\ UNCHANGED wContext
    /\ UNCHANGED <<diskVars, libVars>>

\* the timer of handleEditorChange fires: saveChapterData(updatedChapter, idx),
\* which writes when the folder is connected
EditorSave(outcomes) ==
    /\ edTimer.has
    /\ edTimer' = NoTimer
    /\ IF fsReady
       THEN \E outcome \in outcomes :
               /\ disk' = saveChapter(disk, edTimer.chapter, edTimer.index, outcome).files
               /\ wSaveFailures' = wSaveFailures + (IF outcome = "ok" THEN 0 ELSE 1)
               /\ wEvents' = wEvents + (IF outcome = "ok" THEN 0 ELSE 1)
       ELSE UNCHANGED <<disk, wSaveFailures, wEvents>>
    /\ UNCHANGED <<wPc, wActive, wGenerating, wProgress, wAbort, chapters,
                   localChapters, startIndex, wI, fsReady, wSaving, wAlerts, wRuns,
                   wCalls, wHanded, wReported, wStop, wEnded, wContext, libVars>>
    /\ UNCHANGED <<retryVars, docVars, setupVars, planVars>>

\* `await saveChapterData(..)` of the run settles: the loop goes on to its
\* pause, or a rejection reaches the catch block of handleBatchGenerate
RunSaved(outcomes) ==
    /\ wPc = "save"
    /\ wSaving' = NoSave
    /\ \E outcome \in outcomes :
        /\ disk' = saveChapter(disk, wSaving.chapter, wSaving.index, outcome).files
        /\ wSaveFailures' = wSaveFailures + (IF outcome = "ok" THEN 0 ELSE 1)
        /\ wEvents' = wEvents + (IF outcome = "ok" THEN 0 ELSE 1)
        /\ IF saveChapter(disk, wSaving.chapter, wSaving.index, outcome).raised
           THEN /\ wAlerts' = wAlerts + 1
                /\ RunFinally("failed")
           ELSE /\ wPc' = "pause"
                /\ UNCHANGED <<wGenerating, wProgress, wAbort, wAlerts, wEnded>>
    /\ UNCHANGED <<wActive, chapters, localChapters, startIndex, wI, fsReady, wRuns,
                   wCalls, wHanded, wReported, wStop, wContext, edTimer, libVars>>
    /\ UNCHANGED <<retryVars, docVars, setupVars, planVars>>

\* what the run logs when the loop is left with i iterations done: the
\* head of the loop logs the stop if it reads the flag; after the loop
\* `if (!abortBatchRef.current) addLog(<completed>)`; when the for condition
\* ends the loop with the flag set, neither is logged
RunReport(abort, i) ==
    IF i < chaptersToGenCount /\ abort THEN "stopped"
    ELSE IF ~abort THEN "done"
    ELSE "silent"

\* the 500 ms pause is over: i++ and the head of the loop
RunPause ==
    /\ wPc = "pause"
    /\ IF LoopGoesOn(wI + 1)
          /\ ~ShouldBreak(wAbort, wI + 1, localChapters)
       THEN /\ wActive' = localChapters[startIndex + wI + 2].id
            /\ wProgress' = Progress(wI + 2, chaptersToGenCount)
            /\ wReported' = wI + 2
            /\ wI' = wI + 1
            /\ wCalls' = wCalls + 1
            /\ wContext' = getContext(localChapters[startIndex + wI + 2], localChapters)
            /\ wPc' = "call"
            /\ RetryCall
            /\ UNCHANGED <<wGenerating, wAbort, wEnded>>
       ELSE /\ RunFinally(RunReport(wAbort, wI + 1))
            /\ UNCHANGED <<wActive, wReported, wI, wCalls, wContext, retryVars>>
    /\ UNCHANGED <<chapters, localChapters, startIndex, fsReady, wSaving, wAlerts,
                   wRuns, wHanded, wStop, wEvents>>
    /\ UNCHANGED <<docVars, setupVars, planVars>>
    /\ UNCHANGED <<diskVars, libVars>>

\* the await resumes with a throw: the catch block alerts, then finally
RunThrown ==
    /\ wPc = "call"
    /\ rPc = "thrown"
    /\ wAlerts' = wAlerts + 1
    /\ RunFinally("failed")
    /\ RetryReset
    /\ UNCHANGED <<wActive, chapters, localChapters, startIndex, wI, fsReady,
                   wSaving, wRuns, wCalls, wHanded, wReported, wStop,
                   wEvents>>
    /\ UNCHANGED <<docVars, setupVars, planVars>>
    /\ UNCHANGED wContext
    /\ UNCHANGED <<diskVars, libVars>>

(***************************************************************************)
(* The writing page on its own: a planned Document, one continuation run,  *)
(* followed for less than the 2 s of the editor's debounce timer.          *)
(***************************************************************************)
MaxChapters == 2

MaxEvents == 2

\* a planned chapter as the scenario opens: never written, written by an
\* earlier generation, or holding the fallback literal of an empty answer
InitChapter(k, kind) ==
    CASE kind = "blank" -> Chapter(k, k, k, EmptyBody, FALSE)
      [] kind = "stub" -> Chapter(k, k, k, FallbackBody, TRUE)
      [] kind = "written" -> Chapter(k, k, k, Body("ai", k, WrittenLength), TRUE)

ChapterKinds == {"blank", "stub", "written"}

\* the lengths of the blank Documents: shorter than a run, longer than a run
BlankLengths == { chaptersToGenCount \div 2, chaptersToGenCount + 1 }

\* an empty chapters directory
NoFiles(list) == [k \in 1..Len(list) |-> NoFile]

\* handleSelectDirectory -> saveAllChapters: connecting the folder writes
\* every chapter whose body is not empty
saveAllChapters(list) ==
    [k \in 1..Len(list) |->
        IF list[k].content # EmptyBody THEN File(list[k].content) ELSE NoFile]

\* short Documents of every make-up, and blank ones of the lengths above
InitDocs ==
    { [k \in 1..Len(kinds) |-> InitChapter(k, kinds[k])] :
        kinds \in UNION { [1..n -> ChapterKinds] : n \in 1..MaxChapters } }
    \cup
    { [k \in 1..n |-> InitChapter(k, "blank")] :
        n \in BlankLengths }

InitRun ==
    /\ RetryIdle
    /\ SetupIdle
    /\ PlanIdle
    /\ docChapters \in InitDocs
    /\ docStep = "WRITING"
    /\ docTarget = Len(docChapters)
    /\ uuid = Len(docChapters)
    /\ wPc = "idle"
    /\ wActive = docChapters[1].id
    /\ wGenerating = FALSE
    /\ wProgress = NoProgress
    /\ wAbort = FALSE
    /\ chapters = <<>>
    /\ localChapters = <<>>
    /\ startIndex = 0
    /\ wI = 0
    /\ fsReady \in BOOLEAN
    /\ disk = IF fsReady THEN saveAllChapters(docChapters) ELSE NoFiles(docChapters)
    /\ edTimer = NoTimer
    /\ wSaveFailures = 0
    /\ LibraryIdle
    /\ wSaving = NoSave
    /\ wContext = <<>>
    /\ wAlerts = 0
    /\ wRuns = 0
    /\ wCalls = 0
    /\ wHanded = 0
    /\ wReported = 0
    /\ wStop = NoStop
    /\ wEnded = "none"
    /\ wEvents = 0

\* one more click or keystroke of the user, while the scenario allows it
Gesture == wEvents < MaxEvents /\ wEvents' = wEvents + 1

\* the scenario follows one run, from the click to its end
RunStart == wRuns = 0 /\ RunClick

RunRefused == Gesture /\ RunClickRefused

RunOperation == RunInvoke(wEvents < MaxEvents)

UserSelect == Gesture /\ SelectChapter

UserEdit == Gesture /\ \E body \in UserBodies(wEvents + 1) : EditorChange(body)

UserStop == Gesture /\ StopClick

\* a write may fail while the scenario allows one more event
WriteOutcomes == IF wEvents < MaxEvents THEN SaveOutcomes ELSE {"ok"}

RunWrite == RunSaved(WriteOutcomes)

NextRun ==
    \/ UserSelect
    \/ UserEdit
    \/ UserStop
    \/ RunStart
    \/ RunRefused
    \/ RunClickBusy
    \/ RunOperation
    \/ RunBackoff
    \/ RunReturned
    \/ RunWrite
    \/ RunPause
    \/ RunThrown

SpecRun == InitRun /\ [][NextRun]_vars

\* every await of the run settles: the provider answers or fails, the
\* timers of the back-off and of the pause fire, the write to the folder
\* settles, and the continuation after each await is run by the event loop
RunStep ==
    \/ RunOperation
    \/ RunBackoff
    \/ RunReturned
    \/ RunWrite
    \/ RunPause
    \/ RunThrown

\* one run and its stop button, with nothing else going on
NextStreak ==
    \/ RunStart
    \/ UserStop
    \/ RunOperation
    \/ RunBackoff
    \/ RunReturned
    \/ RunWrite
    \/ RunPause
    \/ RunThrown

SpecStreak == InitRun /\ [][NextStreak]_vars

FairSpecStreak == SpecStreak /\ WF_vars(RunStep)

(***************************************************************************)
(* A Document from its setup page to its writing page: the outline         *)
(* requests of the setup form, the go-back button of the outline page, and *)
(* the planning loop, with no folder connected.                            *)
(***************************************************************************)
MaxLifeCalls == 2

\* the chapter counts the user has typed into the form
LifeTargets == {1, 2}

InitLife ==
    /\ RetryIdle /\ PlanIdle /\ WriterIdle
    /\ \E n \in LifeTargets :
        /\ sfConfig = [INITIAL_CONFIG EXCEPT !["targetChapterCount"] = n]
        /\ docConfig = sfConfig
        /\ docTarget = n
    /\ sfAutoFilling = FALSE
    /\ sfAlerts = <<>>
    /\ sfOnSave = <<>>
    /\ appActive = TRUE
    /\ appGenerating = FALSE
    /\ cfgSaves = <<>>
    /\ cfgStarted = 0
    /\ docOutline = NoOutline
    /\ appAlerts = 0
    /\ docChapters = <<>>
    /\ docStep = "SETUP"
    /\ uuid = 0

LifeSubmit == SubmitClick /\ cfgStarted < MaxLifeCalls

LifeDebounce == DebounceFire /\ cfgStarted < MaxLifeCalls

\* one planning loop per scenario
LifePlan == PlanClick /\ ovBatches = <<>>

NextLife ==
    \/ LifeSubmit
    \/ LifeDebounce
    \/ OutlineInvoke
    \/ OutlineBackoff
    \/ OutlineBack
    \/ LifePlan
    \/ PlanInvoke
    \/ PlanBackoff
    \/ PlanReturned
    \/ PlanContinue
    \/ PlanThrown

SpecLife == InitLife /\ [][NextLife]_vars

(***************************************************************************)
(* The editor on its own: a planned Document in a connected folder, the    *)
(* user selecting chapters and typing, the debounce timer firing.          *)
(***************************************************************************)
MaxEdits == 3

InitEdit == InitRun /\ fsReady

EditGesture == wEvents < MaxEdits /\ wEvents' = wEvents + 1

EditSelect == EditGesture /\ SelectChapter

EditType == EditGesture /\ \E body \in UserBodies(wEvents + 1) : EditorChange(body)

EditorWrite == EditorSave(IF wEvents < MaxEdits THEN SaveOutcomes ELSE {"ok"})

NextEdit ==
    \/ EditSelect
    \/ EditType
    \/ EditorWrite

SpecEdit == InitEdit /\ [][NextEdit]_vars

(***************************************************************************)
(* The collection of Documents in App.  A Document is a record of its      *)
(* identity, its lastModified and a version number for each of its parts;  *)
(* a partial update is a function from some of the parts to new values.    *)
(***************************************************************************)
Novel(id, lastModified, config, outline, list, step) ==
    [id |-> id, lastModified |-> lastModified, config |-> config,
     outline |-> outline, chapters |-> list, step |-> step]

\* prev.map(n => n.id === activeNovelId ? { ...n, ...updates, lastModified: Date.now() } : n)
MergeNovel(n, updates, time) ==
    [f \in DOMAIN n |->
        IF f = "lastModified" THEN time
        ELSE IF f \in DOMAIN updates THEN updates[f] ELSE n[f]]

\* an update applied by position: the first Document of the collection
updateActiveNovelFirst(list, active, updates, time) ==
    IF active = 0
    THEN list
    ELSE [k \in 1..Len(list) |->
            IF k = 1 THEN MergeNovel(list[k], updates, time) ELSE list[k]]

\* App.updateActiveNovel
updateActiveNovel(list, active, updates, time) ==
    IF active = 0
    THEN list
    ELSE [k \in 1..Len(list) |->
            IF list[k].id = active THEN MergeNovel(list[k], updates, time) ELSE list[k]]

\* prev.filter(n => n.id !== id)
RECURSIVE FilterOut(_, _)
FilterOut(list, id) ==
    IF list = <<>> THEN <<>>
    ELSE IF Head(list).id = id THEN FilterOut(Tail(list), id)
    ELSE <<Head(list)>> \o FilterOut(Tail(list), id)

\* activeNovel = novels.find(n => n.id === activeNovelId) || null
HasActiveNovel == \E k \in 1..Len(novels) : novels[k].id = activeNovelId

ActiveNovel == novels[CHOOSE k \in 1..Len(novels) : novels[k].id = activeNovelId]

\* the partial updates the views apply: the outline editor, the go-back
\* button, the editor or a run publishing chapters, the planning loop
ViewUpdates(v) ==
    { [outline |-> v],
      [step |-> "SETUP"],
      [chapters |-> v],
      [chapters |-> v, step |-> "WRITING"] }

\* JSON.stringify(novels): the text of an array of the Documents
Stringify(list) == [has |-> TRUE, array |-> TRUE, items |-> list]

\* the load effect: JSON.parse(saved), Array.isArray(parsed) ? parsed : [];
\* with no item the collection stays the [] of useState
Load(item) == IF item.has /\ item.array THEN item.items ELSE <<>>

\* an effect that writes the collection whatever its length
PersistAlways(list, item) == Stringify(list)

\* the persist effect, run after a render with a new collection:
\* if (novels.length > 0) localStorage.setItem(.., JSON.stringify(novels))
Persist(list, item) == IF Len(list) > 0 THEN Stringify(list) ELSE item

\* handleCreateNovel: a new Document in front, selected
handleCreateNovel ==
    /\ novels' = <<Novel(libOp.seq + 1, now, 0, 0, 0, "SETUP")>> \o novels
    /\ stored' = Persist(novels', stored)
    /\ activeNovelId' = libOp.seq + 1
    /\ libOp' = Op(libOp.seq + 1, "create", libOp.seq + 1)
    /\ UNCHANGED <<now, libSaves>>

\* handleDeleteNovel(id)
handleDeleteNovel(id) ==
    /\ novels' = FilterOut(novels, id)
    /\ stored' = Persist(novels', stored)
    /\ activeNovelId' = IF activeNovelId = id THEN 0 ELSE activeNovelId
    /\ libOp' = Op(libOp.seq + 1, "delete", id)
    /\ UNCHANGED <<now, libSaves>>

\* a view calls updateActiveNovel(updates)
ApplyUpdate(updates) ==
    /\ novels' = updateActiveNovel(novels, activeNovelId, updates, now)
    /\ stored' = Persist(novels', stored)
    /\ libOp' = Op(libOp.seq + 1, "update", activeNovelId)
    /\ UNCHANGED <<activeNovelId, now, libSaves>>

\* Library onSelect
SelectNovel(id) ==
    /\ ~HasActiveNovel
    /\ activeNovelId # id
    /\ activeNovelId' = id
    /\ UNCHANGED <<novels, now, libSaves, stored, libOp>>

\* the header's library button
LeaveNovel ==
    /\ activeNovelId # 0
    /\ activeNovelId' = 0
    /\ UNCHANGED <<novels, now, libSaves, stored, libOp>>

\* handleConfigSave up to its await, called by the SetupForm of the active
\* Document: updateActiveNovel({ config }); the closure keeps activeNovelId
\* and activeNovel as they were at the render
ConfigSaveBegin ==
    /\ HasActiveNovel
    /\ ActiveNovel.step = "SETUP"
    /\ novels' = updateActiveNovel(novels, activeNovelId,
                                   [config |-> libOp.seq + 1], now)
    /\ stored' = Persist(novels', stored)
    /\ libSaves' = Append(libSaves, [id |-> activeNovelId, novel |-> ActiveNovel,
                                     config |-> libOp.seq + 1])
    /\ libOp' = Op(libOp.seq + 1, "config", activeNovelId)
    /\ UNCHANGED <<activeNovelId, now>>

\* generateOutline has answered the oldest call: updatedNovel =
\* { ...activeNovel!, config, outline, step: OUTLINE } replaces the Document
\* of the closure's identity
ConfigSaveResume ==
    /\ libSaves # <<>>
    /\ novels' =
         [k \in 1..Len(novels) |->
            IF novels[k].id = Head(libSaves).id
            THEN [Head(libSaves).novel EXCEPT !.config = Head(libSaves).config,
                                             !.outline = libOp.seq + 1,
                                             !.step = "OUTLINE"]
            ELSE novels[k]]
    /\ stored' = Persist(novels', stored)
    /\ libSaves' = Tail(libSaves)
    /\ libOp' = Op(libOp.seq + 1, "outline", Head(libSaves).id)
    /\ UNCHANGED <<activeNovelId, now>>

\* time passes
Tick ==
    /\ now' = now + 1
    /\ UNCHANGED <<novels, activeNovelId, libSaves, stored, libOp>>

\* the page is loaded again: every state starts over, the calls in flight
\* are gone with the old page, the load effect reads the item and the
\* persist effect runs on the collection it has set
Reload ==
    /\ novels' = Load(stored)
    /\ stored' = Persist(novels', stored)
    /\ activeNovelId' = 0
    /\ libSaves' = <<>>
    /\ libOp' = Op(libOp.seq + 1, "load", 0)
    /\ UNCHANGED now

MaxNovels == 2

MaxLibOps == 4

MaxClock == 2

InitLibrary ==
    /\ RetryIdle /\ SetupIdle /\ DocIdle /\ PlanIdle /\ WriterIdle

NotLibrary == UNCHANGED <<retryVars, setupVars, docVars, planVars>> /\ UNCHANGED
    <<wPc, wActive, wGenerating, wProgress, wAbort, chapters, localChapters,
      startIndex, wI, fsReady, wSaving, wContext, wAlerts, wRuns, wCalls, wHanded,
      wReported, wStop, wEnded, wEvents, diskVars>>

MoreOps == libOp.seq < MaxLibOps

LibCreate == MoreOps /\ Len(novels) < MaxNovels /\ handleCreateNovel /\ NotLibrary

LibDelete ==
    MoreOps /\ (\E k \in 1..Len(novels) : handleDeleteNovel(novels[k].id)) /\ NotLibrary

LibUpdate ==
    MoreOps /\ (\E u \in ViewUpdates(libOp.seq + 1) : ApplyUpdate(u)) /\ NotLibrary

LibSelect == (\E k \in 1..Len(novels) : SelectNovel(novels[k].id)) /\ NotLibrary

LibLeave == LeaveNovel /\ NotLibrary

LibSaveBegin == MoreOps /\ ConfigSaveBegin /\ NotLibrary

LibSaveResume == ConfigSaveResume /\ NotLibrary

LibTick == now < MaxClock /\ Tick /\ NotLibrary

LibReload == MoreOps /\ Reload /\ NotLibrary

NextLibrary ==
    \/ LibCreate
    \/ LibDelete
    \/ LibUpdate
    \/ LibSelect
    \/ LibLeave
    \/ LibSaveBegin
    \/ LibSaveResume
    \/ LibTick
    \/ LibReload

SpecLibrary == InitLibrary /\ [][NextLibrary]_vars

(***************************************************************************)
(* The recommend-configuration button, with the outline requests that its *)
(* onSave starts.                                                          *)
(***************************************************************************)
MaxAutoFills == 2

InitTrend == RetryIdle /\ SetupIdle /\ DocIdle /\ PlanIdle /\ WriterIdle

AutoFillStart == AutoFillClick /\ Len(sfAlerts) + Len(sfOnSave) < MaxAutoFills

NextTrend ==
    \/ AutoFillStart
    \/ AutoFillInvoke
    \/ AutoFillBackoff
    \/ AutoFillReturned
    \/ AutoFillThrown
    \/ OutlineInvoke
    \/ OutlineBackoff
    \/ OutlineBack

SpecTrend == InitTrend /\ [][NextTrend]_vars

(***************************************************************************)
(* The setup page without the recommend button: the submit button, the     *)
(* form's debounce timer, the outline requests they start, and the user    *)
(* leaving and re-entering the Document or going back from the outline.    *)
(***************************************************************************)
MaxOutlineCalls == 3

InitSetup ==
    /\ RetryIdle /\ SetupIdle /\ DocIdle /\ PlanIdle /\ WriterClosed
    /\ fsReady \in BOOLEAN

SubmitStart == SubmitClick /\ cfgStarted < MaxOutlineCalls

DebounceStart == DebounceFire /\ cfgStarted < MaxOutlineCalls

NextSetup ==
    \/ SubmitStart
    \/ DebounceStart
    \/ ConfigSaved
    \/ OutlineInvoke
    \/ OutlineBackoff
    \/ OutlineSaved
    \/ CloseNovel
    \/ OpenNovel
    \/ OutlineBack

SpecSetup == InitSetup /\ [][NextSetup]_vars

(***************************************************************************)
(* The wrapper on its own, around an arbitrary operation.                  *)
(***************************************************************************)
ErrStatuses == {503, 500, 429, 0}

ErrMessages ==
    { NoMessage,
      Msg(<<"b", "a", "d">>),
      Msg(<<"i", "s", " ">> \o Overloaded \o <<"!">>),
      Msg(<<"O">> \o Tail(Overloaded)) }

OpErrors == { Err(s, m) : s \in ErrStatuses, m \in ErrMessages }

OpValues == { [kind |-> "val", id |-> i] : i \in 1..2 }

OpOutcomes == { Ok(v) : v \in OpValues } \cup { Fail(e) : e \in OpErrors }

RetryStart == RetryCall /\ UNCHANGED notRetryVars

RetryOperation == RetryInvoke(OpOutcomes) /\ UNCHANGED notRetryVars

RetryBackoff == RetryDelay /\ UNCHANGED notRetryVars

InitRetry == RetryIdle /\ SetupIdle /\ DocIdle /\ PlanIdle /\ WriterIdle

NextRetry ==
    \/ RetryStart
    \/ RetryOperation
    \/ RetryBackoff

SpecRetry == InitRetry /\ [][NextRetry]_vars

\* a pending promise is eventually run: the event loop starves no callback
FairSpecRetry == SpecRetry /\ WF_vars(NextRetry)

(***************************************************************************)
(* Retry Policy claims.                                                    *)
(***************************************************************************)
\* the transient signature as the specification words it
TransientSignature(e) ==
    \/ e.status \in {503, 500}
    \/ (e.message.has /\ Includes(e.message.text, Overloaded))

TransientFailure(o) == ~o.ok /\ TransientSignature(o.error)

PermanentFailure(o) == ~o.ok /\ ~TransientSignature(o.error)

FailsTwiceThenSucceeds ==
    /\ Len(rOutcomes) = 3
    /\ TransientFailure(rOutcomes[1])
    /\ TransientFailure(rOutcomes[2])
    /\ rOutcomes[3].ok

\* C1: an operation that fails twice with a transient signature and then
\* succeeds is invoked exactly 3 times, the wrapper waits 2000 and then 4000
\* before the 2nd and 3rd invocation, and it returns the third invocation's
\* success value.
C1_TwoTransientThenSuccess ==
    FailsTwiceThenSucceeds =>
        /\ rPc = "returned"
        /\ rCalls = 3
        /\ rWaits = <<DefaultBaseDelay, 2 * DefaultBaseDelay>>
        /\ rWaits[1] < rWaits[2]
        /\ rResult = rOutcomes[3]

C1_Witness == FailsTwiceThenSucceeds /\ rPc = "returned"

\* C2: a non-transient failure, on the first attempt or on a later one, ends
\* the wrapper at once: no invocation and no delay follows it, and the same
\* failure is what the wrapper throws; on the first attempt the operation was
\* invoked exactly once and nothing was waited.
C2_PermanentFailurePropagates ==
    \A i \in 1..Len(rOutcomes) :
        PermanentFailure(rOutcomes[i]) =>
            /\ i = Len(rOutcomes)
            /\ rCalls = i
            /\ Len(rWaits) = i - 1
            /\ rPc = "thrown"
            /\ rResult = rOutcomes[i]
            /\ (i = 1 => rCalls = 1 /\ rWaits = <<>>)

C2_Witness ==
    /\ Len(rOutcomes) = 2
    /\ TransientFailure(rOutcomes[1])
    /\ PermanentFailure(rOutcomes[2])
    /\ rPc = "thrown"

AlwaysTransient == \A i \in 1..Len(rOutcomes) : TransientFailure(rOutcomes[i])

RetryBounded ==
    /\ rCalls <= DefaultRetries + 1
    /\ Len(rWaits) <= DefaultRetries
    /\ \A k \in 1..Len(rWaits) : rWaits[k] = DefaultBaseDelay * 2 ^ (k - 1)
    /\ (AlwaysTransient /\ rCalls = DefaultRetries + 1) =>
            /\ rPc = "thrown"
            /\ rResult = rOutcomes[rCalls]
            /\ rWaits = <<2000, 4000, 8000>>
    /\ (AlwaysTransient /\ rCalls <= DefaultRetries /\ rCalls > 0) =>
            rPc \in {"delay", "invoke"}

\* C3: the k-th wait is baseDelay * 2^(k-1) (2000, 4000, 8000); an operation
\* that always fails transiently is retried until the 3 retries are spent and
\* then its last failure is thrown unchanged; the operation is never invoked
\* more than 1 + 3 times, and every started call of the wrapper settles.
C3_RetryBoundedAndTerminates ==
    /\ []RetryBounded
    /\ (rPc = "invoke") ~> RetrySettled

C3_Witness ==
    /\ AlwaysTransient
    /\ rCalls = DefaultRetries + 1
    /\ rPc = "thrown"

(***************************************************************************)
(* Planning loop claims.                                                   *)
(***************************************************************************)
\* a batch call came back without raising and its chapters were accumulated
BatchAccumulated == ovPc = "call" /\ rPc = "returned" /\ ovPc' = "pause"

\* the while loop ran to its end and committed
LoopCompleted == ovPc = "pause" /\ ovPc' = "idle"

\* C4: whatever the batch calls answer, the accumulated count strictly
\* increases in every iteration whose call did not raise (so the loop cannot
\* go round for ever), and a loop that runs to its end holds at least T
\* chapters and at most T + B - 1.
C4_PlanningLoopProgresses ==
    [][ /\ BatchAccumulated => Len(allChapters') > Len(allChapters)
        /\ LoopCompleted =>
              /\ Len(docChapters') >= docTarget
              /\ Len(docChapters') <= docTarget + BATCH_SIZE - 1 ]_vars

BatchRaised == ovPc = "call" /\ rPc = "thrown"

\* C9: when a batch call raises, the loop halts with no batch call in
\* flight, everything accumulated so far is what the Document then holds,
\* one alert is shown, and the in-progress flag and the progress are cleared.
C9_RaiseHaltsAndCommitsPartial ==
    [][ BatchRaised =>
          /\ ovPc' = "idle"
          /\ rPc' = "idle"
          /\ docChapters' = allChapters
          /\ ovAlerts' = ovAlerts + 1
          /\ ovGenerating' = FALSE
          /\ ovProgress' = NoProgress ]_vars

C9_Witness ==
    /\ ovPc = "idle"
    /\ ovAlerts > 0
    /\ docChapters # <<>>
    /\ docChapters = allChapters
    /\ Len(docChapters) < docTarget

(***************************************************************************)
(* Recommend-configuration claims.                                         *)
(***************************************************************************)
CompleteConfig(v) == v.kind = "object" /\ RequiredFields \subseteq DOMAIN v.obj

\* C10: generateTrendConfig either raises or returns an object that has all
\* the required fields; what handleAutoFill merges and saves is never a
\* partial or an empty object.
C10_TrendConfigCompleteOrRaises ==
    (sfAutoFilling /\ rPc = "returned") => CompleteConfig(rResult.value)

(***************************************************************************)
(* Continuation run claims.                                                *)
(***************************************************************************)
\* the handler leaves its finally block in this step
RunEnds == wGenerating /\ ~wGenerating'

\* 1-based positions a run of chaptersToGenCount units covers in `list`
RunRange(list) ==
    (startIndex + 1)..Min(startIndex + chaptersToGenCount, Len(list))

\* what generateChapterContent can have returned to this run for position k
RunOutputs(k) ==
    { Body("ai", TextNumber(wRuns, k - 1), WrittenLength), FallbackBody }

\* every position of the range is generated and non-empty in `list`, every
\* other position is the chapter the run started from
FrameKept(list) ==
    /\ Len(list) = Len(chapters)
    /\ \A k \in 1..Len(list) :
        IF k \in RunRange(chapters)
        THEN list[k].isGenerated /\ list[k].content.len > 0
        ELSE list[k] = chapters[k]

\* C5: a run in which every call succeeded and nobody pressed stop ends with
\* every position of its range generated and non-empty, and every other
\* position exactly as it was when the run started, in the run's local copy
\* and in the Document.
C5_ContinuationRunFrame ==
    [][ (RunEnds /\ wEnded' = "done") =>
            FrameKept(localChapters') /\ FrameKept(docChapters') ]_vars

\* the stop button was pressed after a unit was merged and before the next
\* iteration read the flag
StoppedAfterUnit == wStop.has /\ wStop.merged = wStop.calls

\* C6: once stop is pressed after unit K of the run was merged, the run has
\* made K calls and makes no other, the last progress it reported is K, and
\* exactly the K positions from the start position on are generated with a
\* body this run wrote (flagged in the Document too); the rest of the local
\* copy is untouched.
C6_CancelAfterUnitK ==
    StoppedAfterUnit =>
        /\ wCalls = wStop.calls
        /\ wReported = wStop.calls
        /\ wHanded = wStop.calls
        /\ wPc \in {"save", "pause", "idle"}
        /\ Len(localChapters) = Len(chapters)
        /\ Len(docChapters) = Len(chapters)
        /\ \A k \in 1..Len(chapters) :
            IF k \in (startIndex + 1)..(startIndex + wStop.calls)
            THEN /\ localChapters[k].isGenerated
                 /\ localChapters[k].content \in RunOutputs(k)
                 /\ docChapters[k].isGenerated
            ELSE localChapters[k] = chapters[k]

C6_Witness ==
    /\ StoppedAfterUnit
    /\ wStop.calls = 2
    /\ wPc = "idle"
    /\ wEnded = "stopped"
    /\ Len(chapters) > startIndex + wStop.calls

\* the awaited call of the current unit hands its result back to the handler
\* although the stop flag is set
ResumesStopped == wAbort /\ wPc = "call" /\ rPc = "returned" /\ wPc' # "call"

\* C7: a unit whose call is in flight when stop is pressed is still merged
\* into the local copy, published to the Document and handed to
\* saveChapterData when its call returns, and with the flag set no call for
\* a later unit is started.
C7_CancelNeverPreempts ==
    [][ /\ ResumesStopped =>
            /\ localChapters'[startIndex + wI + 1].content = rResult.value.body
            /\ localChapters'[startIndex + wI + 1].isGenerated
            /\ docChapters' = localChapters'
            /\ wHanded' = wHanded + 1
            /\ fsReady =>
                  wSaving' = Save(localChapters'[startIndex + wI + 1],
                                  startIndex + wI)
        /\ wAbort => wCalls' = wCalls /\ (wPc # "call" => wPc' # "call") ]_vars

C7_Witness ==
    /\ wStop.has
    /\ wStop.calls = wStop.merged + 1
    /\ wHanded = wStop.calls
    /\ wCalls = wStop.calls
    /\ wEnded = "stopped"
    /\ docChapters = localChapters
    /\ fsReady
    /\ Len(chapters) > startIndex + wCalls

\* the units merged before the failing one hold what the run wrote, the
\* failing one is the chapter the run started from
EarlierKept(list) ==
    /\ Len(list) = Len(chapters)
    /\ \A k \in (startIndex + 1)..(startIndex + wCalls - 1) :
        list[k].isGenerated /\ list[k].content \in RunOutputs(k)
    /\ list[startIndex + wCalls] = chapters[startIndex + wCalls]

\* C8: when the call of the j-th unit raises, the run ends there with one
\* alert, no later call and no second attempt, and the units merged before
\* keep their generated body and flag while the failing unit is unchanged,
\* in the run's local copy and in the Document.
C8_FailurePreservesEarlierUnits ==
    [][ (wPc = "call" /\ rPc = "thrown" /\ wPc' # "call") =>
            /\ RunEnds
            /\ wEnded' = "failed"
            /\ wPc' = "idle"
            /\ rPc' = "idle"
            /\ wCalls' = wCalls
            /\ wAlerts' = wAlerts + 1
            /\ EarlierKept(localChapters')
            /\ EarlierKept(docChapters') ]_vars

(***************************************************************************)
(* generateChapterBatch claims.                                            *)
(***************************************************************************)
\* the text, a markdown fence aside, is one JSON array
ValidBatchText(text) ==
    /\ text # <<>>
    /\ JsonParses(cleanJson(text))
    /\ JsonValue(cleanJson(text)).kind = "array"

\* the batch call of the loop has just returned what it made of the answer
BatchAnswered == ovPc = "call" /\ rPc = "returned" /\ ovAnswer.ok

\* C11: on an answer that is a JSON array, generateChapterBatch called with
\* batch size b returns exactly b chapters, in the order of the answer's
\* entries, each with an empty body, not generated, and an identity that no
\* other chapter of the Document or of the accumulated list has.
C11_BatchReturnsExactlyB ==
    (BatchAnswered /\ ValidBatchText(ovAnswer.value.text)) =>
        LET list == rResult.value.list
            entries == JsonValue(cleanJson(ovAnswer.value.text)).items
        IN  /\ Len(list) = ovBatch.size
            /\ Len(list) = Len(entries)
            /\ \A i \in 1..Len(list) :
                /\ list[i].title = entries[i].obj["title"]
                /\ list[i].summary = entries[i].obj["summary"]
                /\ list[i].content = EmptyBody
                /\ ~list[i].isGenerated
                /\ \A j \in 1..Len(list) : list[j].id = list[i].id => j = i
                /\ \A j \in 1..Len(allChapters) : allChapters[j].id # list[i].id
                /\ \A j \in 1..Len(docChapters) : docChapters[j].id # list[i].id

\* C12: on an answer that does not parse or is not an array,
\* generateChapterBatch returns the empty list without raising, and the
\* answer is the last invocation of the wrapper: nothing is retried.
C12_InvalidBatchDegrades ==
    (ovPc = "call" /\ ovAnswer.ok /\ ~ValidBatchText(ovAnswer.value.text)) =>
        /\ rPc = "returned"
        /\ rResult = Ok(ListValue(<<>>))
        /\ rOutcomes[Len(rOutcomes)] = Ok(ListValue(<<>>))
        /\ rCalls = Len(rOutcomes)

C12_Witness ==
    /\ ovPc = "call"
    /\ rPc = "returned"
    /\ ovAnswer = Ok(TextValue(<<Tok("junk")>>))
    /\ rResult.value.list = <<>>
    /\ rCalls = 1
    /\ rWaits = <<>>

(***************************************************************************)
(* Planning loop, end to end.                                              *)
(***************************************************************************)
\* every batch call of the loop returned as many chapters as it asked for
ProviderExact ==
    /\ ovBatches # <<>>
    /\ \A k \in 1..Len(ovBatches) : ovBatches[k].got = ovBatches[k].size

\* C13: with a target of 25 chapters and a provider that returns as many
\* entries as asked for, the loop makes exactly two batch calls, for 20
\* chapters from position 0 and for 5 from position 20, and the Document
\* ends with exactly 25 chapters, all with an empty body and not generated.
C13_PlanningTwentyFive ==
    (docTarget = 25 /\ ovPc = "idle" /\ ProviderExact) =>
        /\ ovBatches = <<BatchCall(0, 20, 20), BatchCall(20, 5, 5)>>
        /\ Len(docChapters) = 25
        /\ docChapters = allChapters
        /\ \A k \in 1..Len(docChapters) :
            docChapters[k].content = EmptyBody /\ ~docChapters[k].isGenerated

C13_Witness ==
    /\ docTarget = 25
    /\ ovPc = "idle"
    /\ ProviderExact
    /\ Len(ovBatches) = 2
    /\ Len(docChapters) = 25
    /\ docStep = "WRITING"

(***************************************************************************)
(* Continuation run, end to end.                                           *)
(***************************************************************************)
\* a run is over in which no call raised and nobody pressed stop
RunUndisturbed == wPc = "idle" /\ wRuns > 0 /\ wEnded # "failed" /\ ~wStop.has

\* C14: a run on a list of 5 chapters that starts at position 3 writes
\* positions 3 and 4 only (0-based), makes two calls, ends as completed (the
\* catch block is not entered) with a last reported count of 2; and no run
\* ever works on a position past the end of the list: an undisturbed run
\* makes as many calls as there are chapters from its start, 10 at most.
C14_RunStopsAtEndOfList ==
    /\ wPc = "call" => startIndex + wI < Len(localChapters)
    /\ RunUndisturbed =>
        /\ wEnded = "done"
        /\ wCalls = Min(chaptersToGenCount, Len(chapters) - startIndex)
        /\ wReported = wCalls
    /\ (RunUndisturbed /\ Len(chapters) = 5 /\ startIndex = 3) =>
        /\ wCalls = 2
        /\ wReported = 2
        /\ wEnded = "done"
        /\ Len(localChapters) = 5
        /\ \A k \in 1..3 : localChapters[k] = chapters[k]
        /\ \A k \in 4..5 :
            /\ localChapters[k].isGenerated
            /\ localChapters[k].content \in RunOutputs(k)

C14_Witness ==
    /\ RunUndisturbed
    /\ Len(chapters) = 5
    /\ startIndex = 3
    /\ wEnded = "done"
    /\ wReported = 2

(***************************************************************************)
(* getContext claims.                                                      *)
(***************************************************************************)
\* the chapter before the one whose call is in flight (there is one)
Predecessor == localChapters[startIndex + wI]

\* the last 3000 characters of a body, the whole body when it is shorter
LastThreeThousand(body) ==
    Part("body", body.src, body.n,
         IF body.len > 3000 THEN body.len - 3000 ELSE 0, body.len)

C16_SequentialDependency ==
    /\ (wPc = "call" /\ wI > 0) =>
        /\ wHanded = wI
        /\ wCalls = wHanded + 1
        /\ Predecessor.isGenerated
        /\ Predecessor.content \in RunOutputs(startIndex + wI)
        /\ IF Predecessor.content.len >= 50
           THEN /\ wContext = <<BodyEndMarker, LastThreeThousand(Predecessor.content)>>
                /\ wContext[2].n = TextNumber(wRuns, startIndex + wI - 1)
           ELSE wContext = <<SummaryMarker, SummaryPart(Predecessor.summary)>>
    /\ wPc = "call" => rPc # "idle" /\ wCalls = wHanded + 1
    /\ wPc # "call" => rPc = "idle" /\ wCalls = wHanded + (IF wEnded = "failed" THEN 1 ELSE 0)

C16_Witness ==
    /\ wPc = "call"
    /\ wI > 0
    /\ chapters[startIndex + wI].content = EmptyBody
    /\ wContext[1] = BodyEndMarker
    /\ wContext[2].n = TextNumber(wRuns, startIndex + wI - 1)

(***************************************************************************)
(* C17: no two external provider calls in flight for one Document.         *)
(***************************************************************************)
\* the handleConfigSave invocations whose generateOutline request is open:
\* the wrapper awaits the provider or its own back-off delay
OutlineCallsOpen ==
    { i \in DOMAIN cfgSaves : cfgSaves[i].pc \in {"call", "delay"} }

\* the wrapper call of the form, the planning loop or the run is open
WrapperOpen == rPc \in {"invoke", "delay"}

ProviderCallsOpen == Cardinality(OutlineCallsOpen) + (IF WrapperOpen THEN 1 ELSE 0)

\* C17: at every moment at most one provider call is open for the
\* Document, whatever the user clicks and whenever the timers and the
\* provider's answers arrive.
C17_OneCallInFlight == ProviderCallsOpen <= 1

(***************************************************************************)
(* C18: exclusivity during a run.                                          *)
(***************************************************************************)
\* the step is the run publishing its local copy after a merge
RunPublishes == wHanded' = wHanded + 1 /\ docChapters' = localChapters'

\* the step is the run moving on to its next unit
RunAdvances == wPc' = "call" /\ wI' = wI + 1 /\ wActive' = localChapters[startIndex + wI'+ 1].id

\* C18: while a run is in flight, the active unit changes only when the run
\* moves to its next unit, and the Document's unit list changes only when
\* the run publishes its copy: no step of the user changes either.
C18_ExclusiveDuringRun ==
    [][ wGenerating =>
          /\ (wActive' # wActive => RunAdvances)
          /\ (docChapters' # docChapters => RunPublishes) ]_vars

(***************************************************************************)
(* C19: persistence failures are isolated from generation.                 *)
(***************************************************************************)
\* the step is the run's `await saveChapterData(..)` settling
SaveSettles == wPc = "save" /\ wPc' # "save"

Settled == ~edTimer.has /\ wSaving = NoSave /\ wPc = "idle"

\* C20: in a connected folder, once everything has settled and no write has
\* failed, the file of every chapter that has a body holds that body.
C20_DiskConverges ==
    (fsReady /\ Settled /\ wSaveFailures = 0) =>
        \A k \in 1..Len(docChapters) :
            docChapters[k].content # EmptyBody => disk[k] = File(docChapters[k].content)

(***************************************************************************)
(* C21: the lifecycle stage of a Document.                                 *)
(***************************************************************************)
StepRank(step) == CASE step = "SETUP" -> 0 [] step = "OUTLINE" -> 1 [] step = "WRITING" -> 2

\* the step is the go-back button of the outline page
GoBack ==
    /\ docStep = "OUTLINE" /\ docStep' = "SETUP"
    /\ UNCHANGED <<docChapters, docOutline, docConfig, cfgSaves, ovPc>>

\* C21: the stage of a Document is one of SETUP, OUTLINE, WRITING, and it
\* moves backward only by the go-back button, whenever outline requests and
\* planning loops complete.
C21_StageNeverRegresses ==
    [][ /\ docStep' \in {"SETUP", "OUTLINE", "WRITING"}
        /\ StepRank(docStep') < StepRank(docStep) => GoBack ]_vars

(***************************************************************************)
(* C22: updates and deletes of the collection go by identity.              *)
(***************************************************************************)
Ids(list) == [k \in 1..Len(list) |-> list[k].id]

\* the step applied updateActiveNovel or handleDeleteNovel
Updated == libOp'.seq = libOp.seq + 1 /\ libOp'.kind = "update"

Deleted == libOp'.seq = libOp.seq + 1 /\ libOp'.kind = "delete"

\* C22: updateActiveNovel keeps the collection's order and changes no
\* Document other than the one with the active identity, and nothing when no
\* Document is active; handleDeleteNovel removes exactly the Documents of the
\* given identity, keeps the others as they are and in order, and clears the
\* selection exactly when the deleted identity was selected.
C22_UpdateAndDeleteByIdentity ==
    [][ /\ Updated =>
            /\ Ids(novels') = Ids(novels)
            /\ activeNovelId' = activeNovelId
            /\ \A k \in 1..Len(novels) :
                  novels[k].id # activeNovelId => novels'[k] = novels[k]
            /\ activeNovelId = 0 => novels' = novels
        /\ Deleted =>
            /\ \A k \in 1..Len(novels') : novels'[k].id # libOp'.id
            /\ Len(novels') = Cardinality({k \in 1..Len(novels) : novels[k].id # libOp'.id})
            /\ \A k \in 1..Len(novels) :
                  novels[k].id # libOp'.id => \E j \in 1..Len(novels') : novels'[j] = novels[k]
            /\ \A i, j \in 1..Len(novels') :
                  i < j => \E a, b \in 1..Len(novels) :
                             a < b /\ novels[a] = novels'[i] /\ novels[b] = novels'[j]
            /\ activeNovelId' = IF activeNovelId = libOp'.id THEN 0 ELSE activeNovelId
      ]_vars

\* with two Documents, the second one (by position) was updated while
\* selected and the first was left as created
C22_Witness ==
    /\ Len(novels) = 2
    /\ libOp.kind = "update"
    /\ activeNovelId = novels[2].id
    /\ novels[2].outline = libOp.seq
    /\ novels[1].outline = 0 /\ novels[1].chapters = 0 /\ novels[1].config = 0

(***************************************************************************)
(* C23: lastModified follows every mutation.                               *)
(***************************************************************************)
\* the parts of a Document other than its timestamp
Parts(n) == <<n.config, n.outline, n.chapters, n.step>>

\* C23: whenever a step changes a part of a Document, the Document's
\* lastModified afterwards is at least the time of the step, and the
\* lastModified of a Document never decreases.
C23_LastModifiedRefreshed ==
    [][ \A k \in 1..Len(novels) : \A j \in 1..Len(novels') :
          novels'[j].id = novels[k].id =>
            /\ novels'[j].lastModified >= novels[k].lastModified
            /\ Parts(novels'[j]) # Parts(novels[k]) => novels'[j].lastModified >= now
      ]_vars

(***************************************************************************)
(* C24: unit identities are unique and the unit sequence is stable.        *)
(***************************************************************************)
UniqueIds(list) == \A i, j \in 1..Len(list) : list[i].id = list[j].id => i = j

\* identity, title and synopsis of each unit, in order
Skeleton(list) == [k \in 1..Len(list) |-> <<list[k].id, list[k].title, list[k].summary>>]

EmptyResult == ContentOperation(Ok(BodyValue(EmptyBody)))

\* the run's generateChapterContent call has resolved with that value
ResolvedAsEmpty == wPc = "call" /\ rPc = "returned" /\ rResult = EmptyResult

\* C25: when the provider's text is empty the call resolves, it does not
\* raise, and the value it resolves with differs from the value of every
\* call in which the provider wrote a text: the caller can tell the two
\* apart.
C25_EmptyResultDistinct ==
    ResolvedAsEmpty =>
        /\ rResult.ok
        /\ \A text \in ContentTexts(TextNumber(wRuns, startIndex + wI)) :
              ContentOperation(Ok(BodyValue(text))) # rResult

(***************************************************************************)
(* C26: the terminal outcome of a run.                                     *)
(***************************************************************************)
\* a run was started and has ended
RunOver == wRuns > 0 /\ wPc = "idle"

\* C26: a run that has ended has reported one of completed, cancelled and
\* failed, wherever the stop button was pressed and whichever call failed.
C26_OneTerminalOutcome == RunOver => wEnded \in {"done", "stopped", "failed"}

MaxStartLen == 3

StartKinds == ChapterKinds \cup {"edge", "over"}

\* a chapter as the writer opens: as above, or holding a text the user
\* typed of exactly the threshold length, or of one character more
StartChapter(k, kind) ==
    CASE kind = "edge" -> Chapter(k, k, k, Body("user", k, WrittenThreshold), FALSE)
      [] kind = "over" -> Chapter(k, k, k, Body("user", k, WrittenThreshold + 1), FALSE)
      [] OTHER -> InitChapter(k, kind)

StartDocs ==
    { [k \in 1..Len(kinds) |-> StartChapter(k, kinds[k])] :
        kinds \in UNION { [1..n -> StartKinds] : n \in 1..MaxStartLen } }

\* the writer has just been mounted on a Document: useState(chapters[0]?.id)
InitStart ==
    /\ RetryIdle
    /\ SetupIdle
    /\ PlanIdle
    /\ LibraryIdle
    /\ fsReady = FALSE
    /\ edTimer = NoTimer
    /\ wSaveFailures = 0
    /\ docChapters \in StartDocs
    /\ disk = NoFiles(docChapters)
    /\ docStep = "WRITING"
    /\ docTarget = Len(docChapters)
    /\ uuid = Len(docChapters)
    /\ wPc = "idle"
    /\ wActive = docChapters[1].id
    /\ wGenerating = FALSE
    /\ wProgress = NoProgress
    /\ wAbort = FALSE
    /\ chapters = <<>>
    /\ localChapters = <<>>
    /\ startIndex = 0
    /\ wI = 0
    /\ wSaving = NoSave
    /\ wContext = <<>>
    /\ wAlerts = 0
    /\ wRuns = 0
    /\ wCalls = 0
    /\ wHanded = 0
    /\ wReported = 0
    /\ wStop = NoStop
    /\ wEnded = "none"
    /\ wEvents = 0

StartSelect == wRuns = 0 /\ Gesture /\ SelectChapter

StartClick == wRuns = 0 /\ RunClick

StartRefused == Gesture /\ RunClickRefused

NextStart ==
    \/ StartSelect
    \/ StartClick
    \/ StartRefused

SpecStart == InitStart /\ [][NextStart]_vars

(***************************************************************************)
(* C28: where a continuation run starts.                                   *)
(***************************************************************************)
\* the run that starts in this step starts at 0-based position j
StartsAt(j) == wRuns' # wRuns /\ startIndex' = j

Replaced(k) == wRuns > 0 /\ localChapters[k].content # chapters[k].content

\* C29: every chapter whose body the run has replaced held fewer than 500
\* characters when the run started; a chapter of the run's range that was
\* already written keeps its body.
C29_OnlyUnwrittenReplaced ==
    \A k \in 1..Len(localChapters) :
        Replaced(k) => chapters[k].content.len < WrittenThreshold

(***************************************************************************)
(* C30: the Document between two batches of the planning loop.             *)
(***************************************************************************)
\* a batch has been accumulated and reported, the next call has not started
BetweenBatches == ovPc = "pause"

\* C30: after a successful batch and before the next batch call starts, the
\* Document holds as many chapters as the progress reports as accumulated.
C30_DocumentFollowsProgress ==
    BetweenBatches => Len(docChapters) = ovProgress.current

(***************************************************************************)
(* C31: a continuation run is bounded and ends.                            *)
(***************************************************************************)
\* the chapters from the start position to the end of the list
Remaining == Len(chapters) - startIndex

\* C31: a run makes at most min(10, n - P) generation calls; while progress
\* is shown, 1 <= current <= total = 10 and current never goes down; and
\* when every await settles, a run that has started comes to its end.
C31_RunBoundedAndEnds ==
    /\ [](wRuns > 0 => /\ wCalls <= Min(chaptersToGenCount, Remaining)
                       /\ wHanded <= wCalls)
    /\ [](wProgress.has => /\ 1 <= wProgress.current
                           /\ wProgress.current <= wProgress.total
                           /\ wProgress.total = chaptersToGenCount)
    /\ [][wProgress.has /\ wProgress'.has
            => wProgress'.current >= wProgress.current]_vars
    /\ (wPc # "idle") ~> RunOver

\* a run over more chapters than its length has ended after ten calls
C31_Witness ==
    /\ RunOver
    /\ Remaining > chaptersToGenCount
    /\ wCalls = chaptersToGenCount
    /\ wHanded = chaptersToGenCount

(***************************************************************************)
(* C32: what the firing of the setup form's debounce timer does.           *)
(***************************************************************************)
\* the step starts no generateOutline invocation and sets no busy flag
StartsNoOutline == cfgStarted' = cfgStarted /\ cfgSaves' = cfgSaves

\* C32: when the debounce timer of the setup form fires, the configuration
\* is stored in the Document; no outline generation is started, and the
\* outline and the stage of the Document stay as they are.
C32_DebounceOnlyStores ==
    [][DebounceFire => /\ docConfig' = sfConfig
                       /\ StartsNoOutline
                       /\ docOutline' = docOutline
                       /\ docStep' = docStep]_vars

(***************************************************************************)
(* C33: what a completed outline generation does to the Document.          *)
(***************************************************************************)
\* the step is an invocation of handleConfigSave resuming with the outline
OutlineCompleted ==
    /\ OutlineInvoke
    /\ appAlerts' = appAlerts
    /\ \E i \in DOMAIN cfgSaves : cfgSaves[i].pc = "call" /\ cfgSaves' = RemoveAt(cfgSaves, i)

\* C33: when an outline generation completes, the chapters the Document
\* holds at that moment stay as they are, and a Document that has reached
\* the writing stage in the meantime stays there.
C33_OutlineResultMerged ==
    [][OutlineCompleted => /\ docChapters' = docChapters
                           /\ docStep = "WRITING" => docStep' = "WRITING"]_vars

(***************************************************************************)
(* C34: the stored library and the collection in memory.                   *)
(***************************************************************************)
\* C34: once an operation on the collection and the effects it triggers
\* have run, loading the stored library gives the collection in memory; a
\* deleted Document, the last one included, is not restored.
C34_StoredMirrorsCollection == Load(stored) = novels

(***************************************************************************)
(* C35: a click on the continuation button that cannot start a run.        *)
(***************************************************************************)
\* the step is handleBatchGenerate called by a click
ClickStep == RunClick \/ RunClickRefused \/ RunClickBusy

\* every chapter from the selected one to the end holds more than 500
\* characters
AllWrittenFromSelected ==
    \A k \in (CurrentIdx(docChapters, wActive) + 1)..Len(docChapters) :
        docChapters[k].content.len > WrittenThreshold

CannotStart == wGenerating \/ Len(docChapters) = 0 \/ AllWrittenFromSelected

==============================================================================
